---- MODULE Spec2Model ----
(***************************************************************************)
(* Verification model of sdt-python's localization glue:                   *)
(*   - sdt/loc/make_batch.py   : make_batch, make_batch_threaded           *)
(*   - sdt/loc/restrict_roi.py : restrict_roi                              *)
(*   - sdt/roi.py              : ROI, PathROI                              *)
(*   - sdt/gui/item_models.py  : ListModel, DictListModel                  *)
(* The single-frame locate function (sdt/loc/cg) is not part of the source *)
(* tree at hand; where it is needed it is modelled from the specification. *)
(***************************************************************************)
EXTENDS Integers, Sequences, FiniteSets, TLC

VARIABLES
    \* ---- batch processing (make_batch.py) ----
    mode,          \* "single" (make_batch), "threaded" (make_batch_threaded), "off"
    frames,        \* the input sequence of images, each with what locate_func does on it
    kw,            \* the caller's num_threads keyword (None: not given)
    num_threads,   \* the pool size (threaded batch), after kwargs.pop
    pc,            \* position of the calling thread inside batch()
    idx,           \* loop counter of the calling thread (0-based, as enumerate)
    all_features,  \* list of per-frame tables collected so far
    fut,           \* state of each submitted future (threaded batch)
    work_item,     \* where the work item of each future is: in the queue, held by a worker, gone
    completion,    \* order in which the worker threads finished their frames
    calls,         \* how often locate_func was called on each frame
    cancel_next,   \* the future map's clean-up cancels next (0: no clean-up going on)
    outcome,       \* what batch() hands back: nothing yet, a table, or an exception
    \* ---- locate restricted to a ROI (restrict_roi.py, roi.py) ----
    image,         \* the frame handed to locate / restricted_locate
    roi_pc,        \* "idle" before, "done" after the call of restricted_locate
    roi_args,      \* the arguments of that call
    roi_raw,       \* locate's records on the cropped image, moved back (line 63)
    roi_res,       \* the records restricted_locate returned
    loc_calls,     \* results of locate on the frame, by mass_threshold
    \* ---- locate, step by step (spec 4.2 - 4.5) ----
    loc_pc,        \* "idle", "refine" (a candidate is being refined), "filter", "done"
    limg,          \* the frame
    largs,         \* radius, signal_threshold, mass_threshold of the call
    candidates,    \* the candidates of the local-maximum finder
    cur,           \* index of the candidate being refined
    win,           \* centre of the current window
    iter,          \* how often the window of this candidate was re-centred
    refined_recs,  \* what refine returned for the candidates done so far
    iters,         \* how often each of them was re-centred
    last_wins,     \* the centre of the last window of each of them
    lres,          \* the records locate returned
    \* ---- ROI and PathROI applied to the caller's data (roi.py) ----
    p_pc,          \* "idle" once a ROI object and the caller's data exist
    p_obj,         \* the ROI or PathROI object
    p_in,          \* the caller's data: a feature table or an image
    p_orig,        \* its content when the caller created it
    p_res,         \* what the calls on a table returned, by invert
    p_crop,        \* what the call on an image returned
    \* ---- ListModel (gui/item_models.py) ----
    heap,          \* the list objects, by identity
    data_ref,      \* _data of each ListModel: the list object it refers to
    ret_ref,       \* the list object the last toList() returned (None: none)
    last_op,       \* the last operation and the model it was called on
    ret,           \* what the last call on the model returned or raised
    signals,       \* the begin/end calls and signals of the last call, in order
    \* ---- DictListModel (gui/item_models.py) ----
    d_data,        \* _data: the list of dicts
    d_default,     \* the list that is the default value of reset's data
    d_shared,      \* whether _data is that list
    d_roles,       \* the names of the Roles enum, in the order of their ids
    d_roleNames,   \* the attribute roleNames: the method, or what was assigned
    d_reset,       \* arguments of the resetWithDict call that set the present data
    d_op,          \* the last call and its arguments
    d_ret          \* what it returned or raised

bvars == <<mode, frames, kw, num_threads, pc, idx, all_features, fut, work_item,
           completion, calls, cancel_next, outcome>>

rvars == <<image, roi_pc, roi_args, roi_raw, roi_res, loc_calls>>

lvars == <<loc_pc, limg, largs, candidates, cur, win, iter, refined_recs, iters, last_wins, lres>>

pvars == <<p_pc, p_obj, p_in, p_orig, p_res, p_crop>>

mvars == <<heap, data_ref, ret_ref, last_op, ret, signals>>

dvars == <<d_data, d_default, d_shared, d_roles, d_roleNames, d_reset, d_op, d_ret>>

\* the parts of the state other than the batch and the restricted_locate part
ovars == <<lvars, pvars, mvars, dvars>>
\* ... other than the locate, the ROI object, the ListModel and the
\* DictListModel part
xlvars == <<bvars, rvars, pvars, mvars, dvars>>
xpvars == <<bvars, rvars, lvars, mvars, dvars>>
xmvars == <<bvars, rvars, lvars, pvars, dvars>>
xdvars == <<bvars, rvars, lvars, pvars, mvars>>

vars == <<bvars, rvars, ovars>>

----------------------------------------------------------------------------
\* Bounds of the model
MaxFrames == 3
MaxThreads == 2

\* Python's None; also a missing "frame" column / a NaN cell of the table
None == -1

\* multiprocessing.cpu_count() of the machine the module was imported on
num_cpus == 2

\* frame numbers an image (or locate_func) may carry
FrameNos == {7}
\* number of rows locate_func may return for one image
RowCounts == {0, 2}

\* What locate_func does on one image: raise, or return a table of n rows
\* which carries a "frame" column (frame # None) or not; the tables without
\* rows taken here have no "frame" column.
LocateOutcomes ==
    [raises : {TRUE}, n : {0}, frame : {None}] \cup
    [raises : {FALSE}, n : {0}, frame : {None}] \cup
    [raises : {FALSE}, n : RowCounts \ {0}, frame : FrameNos \cup {None}]

\* An image: its frame_no attribute (None: no such attribute, or None) and
\* the result of locate_func on it.
Images == [frame_no : FrameNos \cup {None}, out : LocateOutcomes]

SeqsUpTo(S, n) == UNION {[1..k -> S] : k \in 0..n}

----------------------------------------------------------------------------
\* Images and locate
\*
\* An image is an array of pixel intensities addressed [x, y] (the arrays of
\* the code are addressed [row = y, column = x]; PathROI's crop works on the
\* transposed copy, which is the addressing used here).  Intensities are
\* non-negative integers (an image of an integer dtype).

Max(a, b) == IF a >= b THEN a ELSE b
Min(a, b) == IF a <= b THEN a ELSE b
Abs(a) == IF a >= 0 THEN a ELSE 0 - a

Pixels(w, h) == (0..(w - 1)) \X (0..(h - 1))
Pix(img, x, y) == img.px[<<x, y>>]
InImage(img, x, y) == x >= 0 /\ x < img.w /\ y >= 0 /\ y < img.h

\* a dark image with single bright pixels
MakeImage(w, h, spots) ==
    [w |-> w, h |-> h,
     px |-> [p \in Pixels(w, h) |->
               IF \E s \in spots : s.pos = p
               THEN (CHOOSE s \in spots : s.pos = p).v ELSE 0]]

RECURSIVE SumOver(_, _)
\* sum of the values f[e] for e in S
SumOver(S, f) ==
    IF S = {} THEN 0
    ELSE LET e == CHOOSE e \in S : TRUE IN f[e] + SumOver(S \ {e}, f)

\* raster order: by row (y), then by column (x)
RasterLess(p, q) == p[2] < q[2] \/ (p[2] = q[2] /\ p[1] < q[1])

RECURSIVE RasterSeq(_)
RasterSeq(S) ==
    IF S = {} THEN <<>>
    ELSE LET p == CHOOSE p \in S : \A q \in S \ {p} : RasterLess(p, q)
         IN <<p>> \o RasterSeq(S \ {p})

\* offsets of the disk mask of the given radius
Disk(r) == {d \in ((0 - r)..r) \X ((0 - r)..r) : d[1] * d[1] + d[2] * d[2] <= r * r}

\* the full disk around (x, y) lies in the image
WindowInside(img, x, y, r) ==
    x - r >= 0 /\ x + r <= img.w - 1 /\ y - r >= 0 /\ y + r <= img.h - 1

\* (mutant: every pixel of a plateau counts as a maximum)
IsLocalMaxNonStrict(img, p, r, signal_threshold) ==
    /\ WindowInside(img, p[1], p[2], r)
    /\ Pix(img, p[1], p[2]) > signal_threshold
    /\ \A d \in Disk(r) \ {<<0, 0>>} :
          Pix(img, p[1] + d[1], p[2] + d[2]) <= Pix(img, p[1], p[2])

\* 4.2: strict maximum within the disk, the first pixel in raster order for
\* equal values, above signal_threshold, not within radius of the border
IsLocalMax(img, p, r, signal_threshold) ==
    /\ WindowInside(img, p[1], p[2], r)
    /\ Pix(img, p[1], p[2]) > signal_threshold
    /\ \A d \in Disk(r) \ {<<0, 0>>} :
          LET q == <<p[1] + d[1], p[2] + d[2]>> IN
            \/ Pix(img, q[1], q[2]) < Pix(img, p[1], p[2])
            \/ (Pix(img, q[1], q[2]) = Pix(img, p[1], p[2]) /\ RasterLess(p, q))

\* 4.2: find_local_maxima, candidates in raster order
local_maxima(img, r, signal_threshold) ==
    RasterSeq({p \in Pixels(img.w, img.h) : IsLocalMax(img, p, r, signal_threshold)})

\* 4.3: iteration cap of the refinement
MaxIter == 10

\* n / d rounded to the nearest integer, halves away from zero (d > 0)
RoundDiv(n, d) ==
    IF n >= 0 THEN (2 * n + d) \div (2 * d) ELSE 0 - ((2 * (0 - n) + d) \div (2 * d))

\* 3: x and y of a feature record are sub-pixel positions.  They are held
\* as whole numbers of 1/SubPixel pixel; SubPixel is a multiple of every
\* window mass up to 10, which keeps the centroids of such windows exact.
SubPixel == 2520

NoRecord == [ok |-> FALSE, x |-> 0, y |-> 0, mass |-> 0]

\* the window of radius r centred on (x, y): total masked intensity and
\* first moments about the centre
window_moments(img, x, y, r) ==
    LET disk == Disk(r)
    IN [mass |-> SumOver(disk, [d \in disk |-> Pix(img, x + d[1], y + d[2])]),
        mx |-> SumOver(disk, [d \in disk |-> d[1] * Pix(img, x + d[1], y + d[2])]),
        my |-> SumOver(disk, [d \in disk |-> d[2] * Pix(img, x + d[1], y + d[2])])]

\* the centroid lies more than epsilon = 0.5 pixel from the window centre
shift_exceeds_epsilon(m) == 2 * Abs(m.mx) > m.mass \/ 2 * Abs(m.my) > m.mass

\* 4.3 steps 3 and 5: the record of the window centred on the pixel (x, y)
\* with the moments m: the intensity-weighted centroid and the mass
window_record(x, y, m) ==
    [ok |-> TRUE,
     x |-> x * SubPixel + RoundDiv(m.mx * SubPixel, m.mass),
     y |-> y * SubPixel + RoundDiv(m.my * SubPixel, m.mass),
     mass |-> m.mass]

\* 4.3 step 4: the pixel the window is re-centred on, the one nearest to
\* the centroid
recentre(x, y, m) == <<x + RoundDiv(m.mx, m.mass), y + RoundDiv(m.my, m.mass)>>

\* (mutant: the iteration cap is tested one iteration late)
refine_step_late_cap(img, x, y, r, it) ==
    IF ~WindowInside(img, x, y, r)
    THEN [kind |-> "none", win |-> <<x, y>>, rec |-> NoRecord]
    ELSE LET m == window_moments(img, x, y, r)
         IN IF m.mass <= 0 THEN [kind |-> "none", win |-> <<x, y>>, rec |-> NoRecord]
            ELSE IF shift_exceeds_epsilon(m) /\ it <= MaxIter
                 THEN [kind |-> "move", win |-> recentre(x, y, m), rec |-> NoRecord]
                 ELSE [kind |-> "record", win |-> <<x, y>>,
                       rec |-> window_record(x, y, m)]

\* 4.3: one pass over the window centred on the pixel (x, y) after it
\* re-centrings: nothing (degenerate candidate), the pixel the window is
\* re-centred on, or the record with the centroid of the window; the
\* centroid of the last window also when the iterations are used up
refine_step(img, x, y, r, it) ==
    IF ~WindowInside(img, x, y, r)
    THEN [kind |-> "none", win |-> <<x, y>>, rec |-> NoRecord]
    ELSE LET m == window_moments(img, x, y, r)
         IN IF m.mass <= 0 THEN [kind |-> "none", win |-> <<x, y>>, rec |-> NoRecord]
            ELSE IF shift_exceeds_epsilon(m) /\ it < MaxIter
                 THEN [kind |-> "move", win |-> recentre(x, y, m), rec |-> NoRecord]
                 ELSE [kind |-> "record", win |-> <<x, y>>,
                       rec |-> window_record(x, y, m)]

RECURSIVE RefineFrom(_, _, _, _, _)
\* 4.3: one candidate, from the window centred on the pixel (x, y) on
RefineFrom(img, x, y, r, it) ==
    LET s == refine_step(img, x, y, r, it)
    IN IF s.kind = "move" THEN RefineFrom(img, s.win[1], s.win[2], r, it + 1)
       ELSE s.rec

refine(img, cand, r) == RefineFrom(img, cand[1], cand[2], r, 0)

\* (mutant: the threshold test inverted)
filter_features_inverted(records, mass_threshold) ==
    SelectSeq(records, LAMBDA rec : rec.mass <= mass_threshold)

\* 4.4: drops any record with mass < mass_threshold
filter_features(records, mass_threshold) ==
    SelectSeq(records, LAMBDA rec : rec.mass >= mass_threshold)

\* within radius / 2 of each other
TooClose(a, b, r) ==
    4 * ((a.x - b.x) * (a.x - b.x) + (a.y - b.y) * (a.y - b.y))
        <= r * r * SubPixel * SubPixel

\* (mutant: of records within radius / 2 of each other the first one is kept)
dedup_keeps_first(records, r) ==
    LET keep(i) == ~\E j \in 1..Len(records) :
                      j < i /\ TooClose(records[i], records[j], r)
        idxs == {i \in 1..Len(records) : keep(i)}
        F[i \in 0..Len(records)] ==
            IF i = 0 THEN <<>>
            ELSE IF i \in idxs THEN Append(F[i - 1], records[i]) ELSE F[i - 1]
    IN F[Len(records)]

\* 4.4: of records within radius / 2 of each other only the one with the
\* larger mass is kept (the earlier one for equal masses)
dedup(records, r) ==
    LET keep(i) == ~\E j \in 1..Len(records) :
                      /\ j # i /\ TooClose(records[i], records[j], r)
                      /\ \/ records[j].mass > records[i].mass
                         \/ (records[j].mass = records[i].mass /\ j < i)
        idxs == {i \in 1..Len(records) : keep(i)}
        F[i \in 0..Len(records)] ==
            IF i = 0 THEN <<>>
            ELSE IF i \in idxs THEN Append(F[i - 1], records[i]) ELSE F[i - 1]
    IN F[Len(records)]

\* the records of the candidates refine did not discard, columns x, y, mass
found_records(refd) ==
    LET found == SelectSeq(refd, LAMBDA rec : rec.ok)
    IN [k \in 1..Len(found) |->
          [x |-> found[k].x, y |-> found[k].y, mass |-> found[k].mass]]

\* 4.5: locate with bandpass=False: candidates, refinement, thresholding,
\* deduplication; the table with columns x, y, mass
locate(img, radius, signal_threshold, mass_threshold) ==
    LET cands == local_maxima(img, radius, signal_threshold)
        refined == [k \in 1..Len(cands) |-> refine(img, cands[k], radius)]
    IN dedup(filter_features(found_records(refined), mass_threshold), radius)

----------------------------------------------------------------------------
\* PathROI (roi.py)
\*
\* A path is a rectangle ("rect": the corners (X0, Y0), (X1, Y0), (X1, Y1),
\* (X0, Y1)) or a right triangle ("tri": (X0, Y0), (X1, Y0), (X0, Y1)).  Path
\* coordinates are in half pixels, so that vertices may lie between pixels.

Floor2(v) == v \div 2
Ceil2(v) == 0 - ((0 - v) \div 2)

\* _top_left, lines 183-185
top_left(path) == <<Floor2(path.X0), Floor2(path.Y0)>>
\* _bottom_right, lines 183-186
bottom_right(path) == <<Ceil2(path.X1), Ceil2(path.Y1)>>

\* matplotlib's Path.contains_points for the point (PX, PY) (half pixels)
\* and the path enlarged by R half pixels (the library enlarges the path by
\* half of its radius argument: R half pixels for the radius R pixels).  Whether a point exactly on the
\* (enlarged) path counts as contained is not defined: on_edge is the answer
\* of the library at hand.
contains_point(path, PX, PY, R, on_edge) ==
    LET DX == path.X1 - path.X0
        DY == path.Y1 - path.Y0
        s == (PX - path.X0) * DY + (PY - path.Y0) * DX - DX * DY
        strictBox == /\ PX > path.X0 - R /\ PX < path.X1 + R
                     /\ PY > path.Y0 - R /\ PY < path.Y1 + R
        closedBox == /\ PX >= path.X0 - R /\ PX <= path.X1 + R
                     /\ PY >= path.Y0 - R /\ PY <= path.Y1 + R
        strictHyp == s < 0 \/ (R # 0 /\ s * s < R * R * (DX * DX + DY * DY))
        closedHyp == s <= 0 \/ (R # 0 /\ s * s <= R * R * (DX * DX + DY * DY))
        strict == strictBox /\ (path.kind = "tri" => strictHyp)
        closed == closedBox /\ (path.kind = "tri" => closedHyp)
    IN strict \/ (on_edge /\ closed)

\* _img_mask, lines 192-207: the pixels of the bounding rectangle whose
\* centre lies in the path as contains_points enlarges it for radius =
\* buffer, that is by buffer / 2 pixels
image_mask(path, buffer, on_edge) ==
    LET tl == top_left(path)
        br == bottom_right(path)
    IN [p \in Pixels(br[1] - tl[1], br[2] - tl[2]) |->
          contains_point(path, 2 * (tl[1] + p[1]) + 1, 2 * (tl[2] + p[2]) + 1,
                         buffer, on_edge)]

\* bounds of the Python slice [start:stop] of an axis of length n
PySlice(start, stop, n) ==
    LET norm(v) == IF v < 0 THEN Max(v + n, 0) ELSE Min(v, n)
    IN [lo |-> norm(start), hi |-> Max(norm(stop), norm(start))]

\* conversion of the quotient a / b (b > 0) to an integer: towards zero
TruncDiv(a, b) == IF a >= 0 THEN a \div b ELSE 0 - ((0 - a) \div b)

\* what crop ends with when the mean of no pixel (nan) is to be written
\* into the integer image: ValueError
NanCast == [error |-> "ValueError"]

\* PathROI.__call__.crop with fill_value="mean", lines 285-303
crop(img, path, buffer, on_edge) ==
    LET tlc == top_left(path)
        brc == bottom_right(path)
        mask == image_mask(path, buffer, on_edge)
        mw == brc[1] - tlc[1]
        mh == brc[2] - tlc[2]
        tl_shift == <<Max(0 - tlc[1], 0), Max(0 - tlc[2], 0)>>
        br_shift == <<Min(img.w - brc[1], 0), Min(img.h - brc[2], 0)>>
        tl == <<tlc[1] + tl_shift[1], tlc[2] + tl_shift[2]>>
        br == <<brc[1] + br_shift[1], brc[2] + br_shift[2]>>
        sx == PySlice(tl[1], br[1], img.w)
        sy == PySlice(tl[2], br[2], img.h)
        \* x or None: 0 stands for "from the start" / "to the end"
        mx == PySlice(tl_shift[1], IF br_shift[1] = 0 THEN mw ELSE br_shift[1], mw)
        my == PySlice(tl_shift[2], IF br_shift[2] = 0 THEN mh ELSE br_shift[2], mh)
        cw == sx.hi - sx.lo
        ch == sy.hi - sy.lo
        inside == {p \in Pixels(cw, ch) : mask[<<mx.lo + p[1], my.lo + p[2]>>]}
        total == SumOver(inside, [p \in inside |-> Pix(img, sx.lo + p[1], sy.lo + p[2])])
        fv == TruncDiv(total, Cardinality(inside))
    IN IF inside = {} THEN NanCast
       ELSE [w |-> cw, h |-> ch,
             px |-> [p \in Pixels(cw, ch) |->
                       IF p \in inside THEN Pix(img, sx.lo + p[1], sy.lo + p[2]) ELSE fv]]

\* the path in coordinates of which unit make one pixel
ScalePath(path, unit) ==
    [path EXCEPT !.X0 = @ * unit, !.Y0 = @ * unit, !.X1 = @ * unit, !.Y1 = @ * unit]

\* (mutant: the table is not filtered)
roi_filter_none(path, data, reset_origin, on_edge, unit) ==
    IF reset_origin
    THEN [k \in 1..Len(data) |->
            [data[k] EXCEPT !.x = @ - top_left(path)[1] * unit,
                            !.y = @ - top_left(path)[2] * unit]]
    ELSE data

\* PathROI.__call__ on a feature table (invert=False), lines 263-277; the
\* x and y of the table are in 1/unit pixel
roi_filter(path, data, reset_origin, on_edge, unit) ==
    IF Len(data) = 0 THEN data
    ELSE LET roi_data ==
               SelectSeq(data, LAMBDA rec :
                   contains_point(ScalePath(path, unit), 2 * rec.x, 2 * rec.y, 0, on_edge))
         IN IF reset_origin
            THEN [k \in 1..Len(roi_data) |->
                    [roi_data[k] EXCEPT !.x = @ - top_left(path)[1] * unit,
                                        !.y = @ - top_left(path)[2] * unit]]
            ELSE roi_data

\* restricted_locate, line 56: the crop raises, and restricted_locate with it
crop_raises(img, a) == crop(img, a.path, a.buffer, a.on_edge) = NanCast

\* restricted_locate, lines 56-63: locate on the cropped image, then the
\* top-left corner of the bounding rectangle added to the coordinates
located_in_roi(img, a) ==
    IF crop_raises(img, a) THEN <<>>
    ELSE LET loc == locate(crop(img, a.path, a.buffer, a.on_edge),
                           a.radius, a.signal_threshold, a.mass_threshold)
         IN [k \in 1..Len(loc) |->
               [loc[k] EXCEPT !.x = @ + top_left(a.path)[1] * SubPixel,
                              !.y = @ + top_left(a.path)[2] * SubPixel]]

----------------------------------------------------------------------------
\* Inputs of locate and restricted_locate

\* Bounds of the model: the frame's width and height in pixels
FrameW == 5
FrameH == 5

\* intensities of the bright pixels of a frame, and how many there are
Intensities == {1, 2}
Spot == [pos : Pixels(FrameW, FrameH), v : Intensities]

\* frames with no, one or two bright pixels
SpotSets ==
    {{}} \cup {{s} : s \in Spot} \cup
    {{st[1], st[2]} : st \in {q \in Spot \X Spot : RasterLess(q[1].pos, q[2].pos)}}

Frames == {MakeImage(FrameW, FrameH, S) : S \in SpotSets}

\* arguments of locate
Radii == {1}
SignalThresholds == {0}
MassThresholds == {1, 2, 3}

\* ROI paths (half pixels): rectangles and right triangles that may reach
\* beyond the top and left edge of the frame
Paths ==
    {p \in [kind : {"rect", "tri"}, X0 : {-2, 1, 2}, Y0 : {-2, 2},
            X1 : 0..(2 * FrameW), Y1 : 0..(2 * FrameH)] :
        /\ p.X1 - p.X0 \in {6, 8}
        /\ p.Y1 - p.Y0 = 8}

Buffers == {0, 1, 3}

RoiArgs ==
    [path : Paths, buffer : Buffers, reset_origin : BOOLEAN, on_edge : BOOLEAN,
     radius : Radii, signal_threshold : SignalThresholds, mass_threshold : {1}]

NoArgs ==
    [path |-> [kind |-> "rect", X0 |-> 0, Y0 |-> 0, X1 |-> 0, Y1 |-> 0],
     buffer |-> 0, reset_origin |-> FALSE, on_edge |-> FALSE,
     radius |-> 0, signal_threshold |-> 0, mass_threshold |-> 0]

NotCalled == [called |-> FALSE, radius |-> 0, signal_threshold |-> 0, res |-> <<>>]

\* the ROI part of the state while the model runs a batch
RoiOff ==
    /\ image = MakeImage(0, 0, {})
    /\ roi_pc = "off"
    /\ roi_args = NoArgs
    /\ roi_raw = <<>>
    /\ roi_res = <<>>
    /\ loc_calls = [t \in MassThresholds |-> NotCalled]

NoImage == MakeImage(0, 0, {})
NoLocArgs == [radius |-> 0, signal_threshold |-> 0, mass_threshold |-> 0, direct |-> FALSE]

\* the step-by-step locate part of the state while the model runs something else
LocOff ==
    /\ loc_pc = "off"
    /\ limg = NoImage
    /\ largs = NoLocArgs
    /\ candidates = <<>>
    /\ cur = 0
    /\ win = <<0, 0>>
    /\ iter = 0
    /\ refined_recs = <<>>
    /\ iters = <<>>
    /\ last_wins = <<>>
    /\ lres = <<>>

\* the ROI object part of the state while the model runs something else
PathOff ==
    /\ p_pc = "off"
    /\ p_obj = <<>>
    /\ p_in = <<>>
    /\ p_orig = <<>>
    /\ p_res = <<>>
    /\ p_crop = <<>>

\* the ListModel part of the state while the model runs something else
ListOff ==
    /\ heap = <<>>
    /\ data_ref = <<>>
    /\ ret_ref = None
    /\ last_op = <<>>
    /\ ret = <<>>
    /\ signals = <<>>

\* the DictListModel part of the state while the model runs something else
DictOff ==
    /\ d_data = <<>>
    /\ d_default = <<>>
    /\ d_shared = FALSE
    /\ d_roles = <<>>
    /\ d_roleNames = "off"
    /\ d_reset = <<>>
    /\ d_op = <<>>
    /\ d_ret = <<>>

OthersOff == LocOff /\ PathOff /\ ListOff /\ DictOff

----------------------------------------------------------------------------
\* locate_func(img, *args, **kwargs): the per-frame table (a DataFrame).
\* src is the position of the image in the input, kept to tell the rows apart.
locate_func(src, img) == [src |-> src, n |-> img.out.n, frame |-> img.out.frame]

\* (mutant: an exception of locate_func is swallowed)
RaisesSwallowed(img) == FALSE

\* whether the call locate_func(img, ...) ends with an exception, which
\* neither batch function catches
Raises(img) == img.out.raises

\* (mutant: the frame index counted from 1)
TagSingleFromOne(i, img, features) ==
    IF img.frame_no = None THEN [features EXCEPT !.frame = i + 1] ELSE features

\* make_batch.batch, lines 58-59
TagSingle(i, img, features) ==
    IF img.frame_no = None THEN [features EXCEPT !.frame = i] ELSE features

\* make_batch_threaded.batch, lines 123-124
TagThreaded(i, df) ==
    IF df.frame = None THEN [df EXCEPT !.frame = i] ELSE df

\* rows of one per-frame table
RowsOf(df) == [k \in 1..df.n |-> [src |-> df.src, k |-> k, frame |-> df.frame]]

RECURSIVE ConcatRows(_)
ConcatRows(dfs) ==
    IF dfs = <<>> THEN <<>>
    ELSE RowsOf(Head(dfs)) \o ConcatRows(Tail(dfs))

\* (mutant: concatenating no tables gives an empty table)
pd_concat_empty_table(dfs) ==
    [kind |-> "table", rows |-> ConcatRows(dfs),
     has_frame |-> \E k \in 1..Len(dfs) : dfs[k].frame # None]

\* pd.concat(all_features, ignore_index=True): ValueError on an empty list,
\* else the rows in list order; the table has a "frame" column iff some
\* per-frame table has one, rows of tables without it hold NaN there.
pd_concat(dfs) ==
    IF dfs = <<>> THEN [kind |-> "error", rows |-> <<>>, has_frame |-> FALSE]
    ELSE [kind |-> "table", rows |-> ConcatRows(dfs),
          has_frame |-> \E k \in 1..Len(dfs) : dfs[k].frame # None]

NoOutcome == [kind |-> "none", rows |-> <<>>, has_frame |-> FALSE]
ErrorOutcome == [kind |-> "error", rows |-> <<>>, has_frame |-> FALSE]

\* kwargs.pop("num_threads", num_cpus)
pop_num_threads(given) == IF given = None THEN num_cpus ELSE given

----------------------------------------------------------------------------
\* ThreadPoolExecutor(max_workers=num_threads)

Running == {k \in DOMAIN fut : fut[k] = "running"}
Pending == {k \in DOMAIN fut : fut[k] = "pending"}
\* the work items in the queue, and those a worker has taken off the queue
\* and not yet looked at
Queued == {k \in DOMAIN work_item : work_item[k] = "queued"}
Held == {k \in DOMAIN work_item : work_item[k] = "held"}

\* (mutant: an unbounded pool)
CanStartUnbounded(running, max_workers) == TRUE

\* a worker thread is free to take the next work item
CanStart(running, max_workers) == Cardinality(running) < max_workers

\* (mutant: results taken in completion order, as as_completed would)
NextFutureCompleted(i, done_order) ==
    IF Len(done_order) > i THEN done_order[i + 1] ELSE i + 1

\* Executor.map yields the results in the order of the submitted futures:
\* the future whose result is the (i+1)-th element of list(e.map(...))
NextFuture(i, done_order) == i + 1

InitBatch ==
    /\ frames \in SeqsUpTo(Images, MaxFrames)
    /\ mode \in {"single", "threaded"}
    /\ kw \in {None} \cup 1..MaxThreads
    /\ mode = "single" => kw = None
    /\ num_threads = pop_num_threads(kw)
    /\ pc = IF mode = "single" THEN "loop" ELSE "collect"
    /\ idx = 0
    /\ all_features = <<>>
    /\ fut = [k \in 1..Len(frames) |-> IF mode = "threaded" THEN "pending" ELSE "unused"]
    /\ work_item = [k \in 1..Len(frames) |-> IF mode = "threaded" THEN "queued" ELSE "unused"]
    /\ completion = <<>>
    /\ calls = [k \in 1..Len(frames) |-> 0]
    /\ cancel_next = 0
    /\ outcome = NoOutcome
    /\ RoiOff
    /\ OthersOff

\* make_batch.batch: one iteration of the for loop (lines 55-62)
SingleStep ==
    /\ mode = "single" /\ pc = "loop" /\ idx < Len(frames)
    /\ LET img == frames[idx + 1] IN
         /\ calls' = [calls EXCEPT ![idx + 1] = @ + 1]
         /\ IF Raises(img)
            THEN /\ pc' = "done"
                 /\ outcome' = ErrorOutcome
                 /\ UNCHANGED <<idx, all_features>>
            ELSE /\ all_features' =
                       Append(all_features, TagSingle(idx, img, locate_func(idx, img)))
                 /\ idx' = idx + 1
                 /\ UNCHANGED <<pc, outcome>>
    /\ UNCHANGED <<ovars, rvars, work_item, cancel_next, mode, frames, kw, num_threads, fut, completion>>

\* make_batch.batch: the return statement (line 64)
SingleConcat ==
    /\ mode = "single" /\ pc = "loop" /\ idx = Len(frames)
    /\ outcome' = pd_concat(all_features)
    /\ pc' = "done"
    /\ UNCHANGED <<ovars, rvars, work_item, cancel_next, mode, frames, kw, num_threads, idx, all_features, fut, completion, calls>>

\* a free worker thread takes the oldest work item off the queue
\* (work_queue.get()); its future stays pending, or cancelled
WorkerTake(k) ==
    /\ mode = "threaded" /\ k \in Queued
    /\ \A j \in Queued : k <= j
    /\ CanStart(Held \cup Running, num_threads)
    /\ work_item' = [work_item EXCEPT ![k] = "held"]
    /\ UNCHANGED <<ovars, rvars, cancel_next, mode, frames, kw, num_threads, pc, idx, all_features, fut, completion, calls, outcome>>

\* the worker marks the future of its work item as running
\* (set_running_or_notify_cancel) and calls func(frame)
WorkerStart(k) ==
    /\ mode = "threaded" /\ k \in Held /\ k \in Pending
    /\ fut' = [fut EXCEPT ![k] = "running"]
    /\ work_item' = [work_item EXCEPT ![k] = "gone"]
    /\ calls' = [calls EXCEPT ![k] = @ + 1]
    /\ UNCHANGED <<ovars, rvars, cancel_next, mode, frames, kw, num_threads, pc, idx, all_features, completion, outcome>>

\* the worker finds the future of its work item cancelled and drops the item
WorkerSkip(k) ==
    /\ mode = "threaded" /\ k \in Held /\ fut[k] = "cancelled"
    /\ work_item' = [work_item EXCEPT ![k] = "gone"]
    /\ UNCHANGED <<ovars, rvars, cancel_next, mode, frames, kw, num_threads, pc, idx, all_features, fut, completion, calls, outcome>>

\* func(frame) returns or raises in its worker thread
WorkerFinish(k) ==
    /\ mode = "threaded" /\ k \in Running
    /\ fut' = [fut EXCEPT ![k] = IF Raises(frames[k]) THEN "failed" ELSE "done"]
    /\ completion' = Append(completion, k)
    /\ UNCHANGED <<ovars, rvars, work_item, cancel_next, mode, frames, kw, num_threads, pc, idx, all_features, calls, outcome>>

\* list(e.map(func, frames)): the calling thread takes the next result
\* (line 120).  A raised exception leaves map's result iterator, whose
\* clean-up cancels the futures not yet taken, the last submitted first.
Collect ==
    /\ mode = "threaded" /\ pc = "collect" /\ idx < Len(frames)
    /\ LET f == NextFuture(idx, completion) IN
         /\ fut[f] \in {"done", "failed"}
         /\ IF fut[f] = "done"
            THEN /\ all_features' = Append(all_features, locate_func(f - 1, frames[f]))
                 /\ idx' = idx + 1
                 /\ UNCHANGED <<pc, cancel_next>>
            ELSE /\ pc' = IF idx + 1 < Len(frames) THEN "cancel" ELSE "shutdown"
                 /\ cancel_next' = IF idx + 1 < Len(frames) THEN Len(frames) ELSE 0
                 /\ UNCHANGED <<idx, all_features>>
    /\ UNCHANGED <<ovars, rvars, work_item, mode, frames, kw, num_threads, fut, completion, calls, outcome>>

\* the clean-up of map's result iterator: future.cancel() on one future; a
\* future that is running or finished stays as it is.  The worker threads
\* go on in between.
CancelNext ==
    /\ mode = "threaded" /\ pc = "cancel"
    /\ fut' = [fut EXCEPT ![cancel_next] = IF @ = "pending" THEN "cancelled" ELSE @]
    /\ IF cancel_next > idx + 2
       THEN /\ cancel_next' = cancel_next - 1
            /\ UNCHANGED pc
       ELSE /\ cancel_next' = 0
            /\ pc' = "shutdown"
    /\ UNCHANGED <<ovars, rvars, work_item, mode, frames, kw, num_threads, idx, all_features, completion, calls, outcome>>

\* leaving the with block after an exception: shutdown(wait=True), then the
\* exception leaves batch()
ShutdownRaise ==
    /\ mode = "threaded" /\ pc = "shutdown"
    /\ Running = {} /\ Held = {} /\ Queued = {}
    /\ pc' = "done"
    /\ outcome' = ErrorOutcome
    /\ UNCHANGED <<ovars, rvars, work_item, cancel_next, mode, frames, kw, num_threads, idx, all_features, fut, completion, calls>>

RECURSIVE TagAll(_, _)
TagAll(dfs, i) ==
    IF dfs = <<>> THEN <<>>
    ELSE <<TagThreaded(i, Head(dfs))>> \o TagAll(Tail(dfs), i + 1)

\* all results collected: leave the with block, tag and concatenate
\* (lines 122-126)
TagConcat ==
    /\ mode = "threaded" /\ pc = "collect" /\ idx = Len(frames)
    /\ Running = {}
    /\ all_features' = TagAll(all_features, 0)
    /\ outcome' = pd_concat(all_features')
    /\ pc' = "done"
    /\ UNCHANGED <<ovars, rvars, work_item, cancel_next, mode, frames, kw, num_threads, idx, fut, completion, calls>>

NextBatch ==
    \/ SingleStep
    \/ SingleConcat
    \/ \E k \in DOMAIN fut : WorkerTake(k)
    \/ \E k \in DOMAIN fut : WorkerStart(k)
    \/ \E k \in DOMAIN fut : WorkerSkip(k)
    \/ \E k \in DOMAIN fut : WorkerFinish(k)
    \/ Collect
    \/ CancelNext
    \/ ShutdownRaise
    \/ TagConcat

SpecBatch == InitBatch /\ [][NextBatch]_vars

----------------------------------------------------------------------------
\* locate and restricted_locate on one frame

\* the batch part of the state while the model runs locate on one frame
BatchOff ==
    /\ mode = "off"
    /\ frames = <<>>
    /\ kw = None
    /\ num_threads = num_cpus
    /\ pc = "off"
    /\ idx = 0
    /\ all_features = <<>>
    /\ fut = <<>>
    /\ work_item = <<>>
    /\ completion = <<>>
    /\ calls = <<>>
    /\ cancel_next = 0
    /\ outcome = NoOutcome

InitRoi ==
    /\ image \in Frames
    /\ roi_pc = "idle"
    /\ roi_args = NoArgs
    /\ roi_raw = <<>>
    /\ roi_res = <<>>
    /\ loc_calls = [t \in MassThresholds |-> NotCalled]
    /\ BatchOff
    /\ OthersOff

\* restrict_roi(locate, buffer)(image, path, radius, signal_threshold,
\* mass_threshold, reset_origin=...), restrict_roi.py lines 56-69
RestrictedLocate(a) ==
    /\ roi_pc = "idle"
    /\ \A t \in MassThresholds : ~loc_calls[t].called
    /\ roi_args' = a
    /\ roi_raw' = located_in_roi(image, a)
    /\ roi_res' = roi_filter(a.path, roi_raw', a.reset_origin, a.on_edge, SubPixel)
    /\ roi_pc' = IF crop_raises(image, a) THEN "error" ELSE "done"
    /\ UNCHANGED <<ovars, bvars, image, loc_calls>>

\* locate(image, radius, signal_threshold, mass_threshold) on the full frame
LocateCall(r, st, t) ==
    /\ roi_pc = "idle"
    /\ ~loc_calls[t].called
    /\ loc_calls' = [loc_calls EXCEPT ![t] = 
                       [called |-> TRUE, radius |-> r, signal_threshold |-> st,
                        res |-> locate(image, r, st, t)]]
    /\ UNCHANGED <<ovars, bvars, image, roi_pc, roi_args, roi_raw, roi_res>>

NextRoi ==
    \/ \E a \in RoiArgs : RestrictedLocate(a)
    \/ \E r \in Radii, st \in SignalThresholds, t \in MassThresholds : LocateCall(r, st, t)

SpecRoi == InitRoi /\ [][NextRoi]_vars

----------------------------------------------------------------------------
\* Properties of locate restricted to a ROI

RoiDone == roi_pc = "done"
SeqSet(q) == {q[k] : k \in 1..Len(q)}

RoiTopLeft == top_left(roi_args.path)
RoiBottomRight == bottom_right(roi_args.path)

\* a returned record in the coordinates of the frame ("up to re-origin")
InFrameCoords(rec) ==
    IF roi_args.reset_origin
    THEN [rec EXCEPT !.x = @ + RoiTopLeft[1] * SubPixel, !.y = @ + RoiTopLeft[2] * SubPixel]
    ELSE rec

Reported == {InFrameCoords(rec) : rec \in SeqSet(roi_res)}

\* locate on the full frame with the arguments of the restricted call
FullLocate ==
    SeqSet(locate(image, roi_args.radius, roi_args.signal_threshold,
                  roi_args.mass_threshold))

\* the point lies strictly inside the path / inside or on it (x and y in
\* 1/SubPixel pixel)
StrictlyInside(path, x, y) ==
    contains_point(ScalePath(path, SubPixel), 2 * x, 2 * y, 0, FALSE)
InsideOrOn(path, x, y) ==
    LET sp == ScalePath(path, SubPixel) IN
    /\ 2 * x >= sp.X0 /\ 2 * x <= sp.X1
    /\ 2 * y >= sp.Y0 /\ 2 * y <= sp.Y1
    /\ path.kind = "tri" =>
          (2 * x - sp.X0) * (path.Y1 - path.Y0)
            + (2 * y - sp.Y0) * (path.X1 - path.X0)
            <= (sp.X1 - sp.X0) * (path.Y1 - path.Y0)

\* the pixel a sub-pixel coordinate lies in
PixelOf(v) == RoundDiv(v, SubPixel)

RoiWithinFrame ==
    /\ RoiTopLeft[1] >= 0 /\ RoiTopLeft[2] >= 0
    /\ RoiBottomRight[1] <= image.w /\ RoiBottomRight[2] <= image.h

\* C7: for a rectangular ROI (here: one that lies within the frame) and
\* buffer = radius, the restricted locate returns, up to re-origin, the
\* records of locate on the full frame that lie inside the rectangle.
C7_RoiEquivalence ==
    (RoiDone /\ roi_args.path.kind = "rect" /\ roi_args.buffer = roi_args.radius
       /\ RoiWithinFrame) =>
        Reported = {rec \in FullLocate : StrictlyInside(roi_args.path, rec.x, rec.y)}

\* C8: every record a restricted locate returns lies inside (or on) the
\* unbuffered path, whatever the buffer.
C8_InsidePath ==
    RoiDone =>
        \A rec \in Reported : InsideOrOn(roi_args.path, rec.x, rec.y)

\* locate found a record in the buffer zone outside the path, and the
\* restricted locate returned another one
C8_Witness ==
    /\ RoiDone /\ roi_args.buffer > 0
    /\ \E rec \in SeqSet(roi_raw) : ~InsideOrOn(roi_args.path, rec.x, rec.y)
    /\ roi_res # <<>>

\* C9: a restricted locate reports each feature at the coordinates it has
\* in the full frame (reset_origin=False), or at those minus the top-left
\* corner of the bounding rectangle (reset_origin=True), wherever the ROI
\* lies relative to the frame (here: for rectangular ROIs, where no pixel
\* of the crop is filled): up to that re-origin the pixel of every reported
\* position is a bright pixel of the frame.
C9_FrameCoordinates ==
    (RoiDone /\ roi_args.path.kind = "rect") =>
        \A rec \in Reported :
            /\ InImage(image, PixelOf(rec.x), PixelOf(rec.y))
            /\ Pix(image, PixelOf(rec.x), PixelOf(rec.y)) > roi_args.signal_threshold

\* C10: for a fixed frame, radius and signal_threshold the records locate
\* returns for a mass_threshold t2 >= t1 are among those it returns for t1,
\* and every returned record has mass >= mass_threshold.
C10_MassThresholdMonotone ==
    /\ \A t \in MassThresholds :
          loc_calls[t].called => \A rec \in SeqSet(loc_calls[t].res) : rec.mass >= t
    /\ \A t1, t2 \in MassThresholds :
          (/\ loc_calls[t1].called /\ loc_calls[t2].called /\ t1 <= t2
           /\ loc_calls[t1].radius = loc_calls[t2].radius
           /\ loc_calls[t1].signal_threshold = loc_calls[t2].signal_threshold) =>
              SeqSet(loc_calls[t2].res) \subseteq SeqSet(loc_calls[t1].res)

\* the higher threshold dropped a record and kept another one
C10_Witness ==
    \E t1, t2 \in MassThresholds :
        /\ t1 < t2 /\ loc_calls[t1].called /\ loc_calls[t2].called
        /\ loc_calls[t2].res # <<>>
        /\ SeqSet(loc_calls[t2].res) # SeqSet(loc_calls[t1].res)

----------------------------------------------------------------------------
\* Properties of batch processing

BatchDone == pc = "done"
ReturnsTable == BatchDone /\ outcome.kind = "table"
Rows == outcome.rows
NFrames == Len(frames)

\* what locate_func returned for the image a row comes from
LocFrame(row) == frames[row.src + 1].out.frame

\* the rows of frame i sit in the table as locate returned them
RowsOfFrame(i) == SelectSeq(Rows, LAMBDA r : r.src = i)
KeepsLocateRows(i) ==
    LET rs == RowsOfFrame(i) IN
      /\ Len(rs) = frames[i + 1].out.n
      /\ \A k \in 1..Len(rs) : rs[k].k = k

GroupedByInputOrder ==
    \A a, b \in 1..Len(Rows) : a < b => Rows[a].src <= Rows[b].src

\* C1: the threaded batch returns the rows grouped by frame in input order,
\* whatever the order in which the workers finished, and a per-frame table
\* that gets its frame index from batch gets its position in the input.
C1_ThreadedInputOrder ==
    (mode = "threaded" /\ ReturnsTable) =>
        /\ GroupedByInputOrder
        /\ \A i \in 0..(NFrames - 1) : KeepsLocateRows(i)
        /\ \A a \in 1..Len(Rows) :
              LocFrame(Rows[a]) = None => Rows[a].frame = Rows[a].src

\* the workers finished in another order than the input order, and both
\* frames contributed rows that batch had to index
C1_Witness ==
    /\ mode = "threaded" /\ ReturnsTable
    /\ Len(completion) >= 2 /\ completion[1] > completion[2]
    /\ \E a, b \in 1..Len(Rows) :
          /\ Rows[a].src = completion[1] - 1 /\ Rows[b].src = completion[2] - 1
          /\ LocFrame(Rows[a]) = None /\ LocFrame(Rows[b]) = None

NoFrameNumbers == \A k \in 1..NFrames : frames[k].frame_no = None
NoLocateFrameColumn == \A k \in 1..NFrames : Raises(frames[k]) \/ frames[k].out.frame = None

FrameColumnMonotone ==
    \A a, b \in 1..Len(Rows) : a < b => Rows[a].frame <= Rows[b].frame

PerFrameSubsets ==
    \A i \in 0..(NFrames - 1) :
        /\ KeepsLocateRows(i)
        /\ SelectSeq(Rows, LAMBDA r : r.frame = i) = RowsOfFrame(i)

\* C2 as stated: for images without a frame number the frame column is
\* non-decreasing and the rows with frame == i are the rows of locate(f_i).
C2_Original ==
    (ReturnsTable /\ NFrames >= 1 /\ NoFrameNumbers) =>
        FrameColumnMonotone /\ PerFrameSubsets

\* C2 (amended): for images without a frame number on which locate returns
\* tables without a frame column, the frame column of the batch result is
\* non-decreasing and the rows with frame == i are exactly the rows of
\* locate(f_i), in the same order; single-threaded and threaded.
C2_BatchOrdering ==
    (ReturnsTable /\ NFrames >= 1 /\ NoFrameNumbers /\ NoLocateFrameColumn) =>
        FrameColumnMonotone /\ PerFrameSubsets

C2_Witness ==
    /\ ReturnsTable /\ NoFrameNumbers /\ NoLocateFrameColumn
    /\ NFrames >= 2
    /\ \A i \in 0..(NFrames - 1) : Len(RowsOfFrame(i)) >= 2

\* C3: batch never overwrites a frame value locate put on its table, and a
\* table without one gets the position of its image in the input; for the
\* single-threaded and the threaded batch.
C3_FrameOnlyIfAbsent ==
    ReturnsTable =>
        \A a \in 1..Len(Rows) :
            Rows[a].frame = IF LocFrame(Rows[a]) # None THEN LocFrame(Rows[a])
                            ELSE Rows[a].src

\* C4: the table batch returns has a "frame" column holding a frame number
\* in every row, whatever the images carry and whatever locate set.
C4_FrameColumnEverywhere ==
    (ReturnsTable /\ NFrames >= 1) =>
        /\ outcome.has_frame
        /\ \A a \in 1..Len(Rows) : Rows[a].frame # None

\* C5: if locate raises for some frame of the sequence, batch ends with the
\* error and hands back no table; a table is only handed back when batch
\* is done.
C5_ErrorPropagates ==
    /\ (BatchDone /\ \E k \in 1..NFrames : frames[k].out.raises) =>
            outcome.kind = "error" /\ outcome.rows = <<>>
    /\ ~BatchDone => outcome.kind = "none"

\* locate raised for one frame after it had succeeded for another one
C5_Witness ==
    /\ BatchDone /\ outcome.kind = "error" /\ NFrames >= 2
    /\ \E j, k \in 1..NFrames :
          /\ frames[k].out.raises /\ calls[k] = 1
          /\ ~frames[j].out.raises /\ frames[j].out.n > 0 /\ calls[j] = 1

\* the pool size the caller asked for
RequestedThreads == IF kw = None THEN num_cpus ELSE kw

\* C6 as stated: never more than num_threads locate calls at once, and
\* every frame is processed exactly once when batch ends.
C6_Original ==
    /\ mode = "threaded" => Cardinality(Running) <= RequestedThreads
    /\ (mode = "threaded" /\ BatchDone) => \A k \in 1..NFrames : calls[k] = 1

\* the frames whose results batch takes before it ends: all up to and
\* including the first one locate_func raises on, every frame if it raises
\* on none
LastCollected ==
    IF \E k \in 1..NFrames : Raises(frames[k])
    THEN CHOOSE k \in 1..NFrames :
            Raises(frames[k]) /\ \A j \in 1..(k - 1) : ~Raises(frames[j])
    ELSE NFrames

\* C6 (amended): in the threaded batch never more than num_threads (the
\* keyword, else the CPU count) locate calls run at once; no frame is
\* processed twice, a frame whose future was cancelled is never processed,
\* and when batch ends, with a table or with the exception of a locate
\* call, every frame up to and including the first one locate raises on
\* (every frame, if it raises on none) has been processed exactly once.
C6_PoolBound ==
    mode = "threaded" =>
        /\ Cardinality(Running) <= RequestedThreads
        /\ \A k \in 1..NFrames : calls[k] <= 1
        /\ \A k \in 1..NFrames : fut[k] = "cancelled" => calls[k] = 0
        /\ BatchDone => \A k \in 1..LastCollected : calls[k] = 1

\* the pool is full with a frame that follows the one locate raised on,
\* while the future of a later frame has been cancelled
C6_Witness ==
    /\ mode = "threaded" /\ kw # None
    /\ Cardinality(Running) = RequestedThreads
    /\ \E j \in Running : j > LastCollected
    /\ \E k \in 1..NFrames : fut[k] = "cancelled" /\ calls[k] = 0

\* a batch that ended with the exception of a locate call, one later frame
\* processed and one never
FailedBatchSkipsFrame ==
    /\ mode = "threaded" /\ BatchDone /\ outcome.kind = "error"
    /\ \E j, k \in (LastCollected + 1)..NFrames : calls[j] = 1 /\ calls[k] = 0

RECURSIVE single_tables(_, _)
\* make_batch.batch, lines 54-62: all_features after the loop over the
\* frames from position i on
single_tables(fs, i) ==
    IF fs = <<>> THEN <<>>
    ELSE <<TagSingle(i, Head(fs), locate_func(i, Head(fs)))>>
           \o single_tables(Tail(fs), i + 1)

\* make_batch(locate_func)(frames), lines 54-64, as a function of the frames
make_batch(fs) ==
    IF \E k \in 1..Len(fs) : Raises(fs[k]) THEN ErrorOutcome
    ELSE pd_concat(single_tables(fs, 0))

\* make_batch_threaded(locate_func)(frames), lines 113-126, as a function
\* of the frames
make_batch_threaded(fs) ==
    IF \E k \in 1..Len(fs) : Raises(fs[k]) THEN ErrorOutcome
    ELSE pd_concat(TagAll([k \in 1..Len(fs) |-> locate_func(k - 1, fs[k])], 0))

\* the steps of the two batch functions end with what the functions give
BatchStepsAgree ==
    BatchDone =>
        outcome = IF mode = "single" THEN make_batch(frames)
                  ELSE make_batch_threaded(frames)

\* C23: for every frame sequence the threaded batch returns the table the
\* single-threaded batch returns for it: same rows in the same order, same
\* columns, same frame values, also for images with a frame_no and for
\* tables on which locate set a frame column.
C23_ThreadedEqualsSingle ==
    (mode = "threaded" /\ ReturnsTable) => outcome = make_batch(frames)

\* C24: batch on an empty sequence of frames, single-threaded or threaded,
\* returns no table: the concatenation of zero tables fails, batch ends
\* with the error, and locate_func was not called.
C24_EmptyInputFails ==
    (BatchDone /\ NFrames = 0) =>
        /\ outcome.kind = "error"
        /\ outcome.rows = <<>>
        /\ all_features = <<>>
        /\ \A k \in DOMAIN calls : calls[k] = 0

\* the threaded batch is done with an empty sequence
C24_Witness ==
    /\ BatchDone /\ NFrames = 0
    /\ mode = "threaded"
    /\ outcome.kind = "error"

----------------------------------------------------------------------------
\* locate, step by step (spec 4.2 - 4.5)

\* arguments of locate
LocRadii == {1, 2}
LocSignalThresholds == {-1, 0}
LocMassThresholds == {1, 4}

\* frames with one row of signal on a dark background; background-subtracted
\* intensities may be negative
RowValues == {-1, 0, 1, 2}
RowFrames ==
    {[w |-> FrameW, h |-> FrameH,
      px |-> [p \in Pixels(FrameW, FrameH) |->
                IF p[2] = FrameH \div 2 THEN row[p[1]] ELSE 0]] :
        row \in [0..(FrameW - 1) -> RowValues]}

LocFrames == Frames \cup RowFrames

\* records handed to the thresholding and deduplication directly
GivenRecords ==
    [ok : {TRUE}, x : {k * SubPixel : k \in 1..3}, y : {2 * SubPixel}, mass : {1, 2}]
MaxGiven == 3

InitLocate ==
    /\ loc_pc = "idle"
    /\ limg \in LocFrames \cup {NoImage}
    /\ largs = NoLocArgs
    /\ candidates = <<>>
    /\ cur = 0
    /\ win = <<0, 0>>
    /\ iter = 0
    /\ refined_recs = <<>>
    /\ iters = <<>>
    /\ last_wins = <<>>
    /\ lres = <<>>
    /\ BatchOff
    /\ RoiOff
    /\ PathOff
    /\ ListOff
    /\ DictOff

\* 4.5 / 4.2: locate(frame, radius, signal_threshold, mass_threshold,
\* bandpass=False) finds the candidates
Locate(r, st, mt) ==
    /\ loc_pc = "idle"
    /\ limg # NoImage
    /\ largs' = [radius |-> r, signal_threshold |-> st, mass_threshold |-> mt,
                 direct |-> FALSE]
    /\ candidates' = local_maxima(limg, r, st)
    /\ IF candidates' = <<>>
       THEN loc_pc' = "filter" /\ cur' = 0 /\ win' = win
       ELSE loc_pc' = "refine" /\ cur' = 1 /\ win' = candidates'[1]
    /\ UNCHANGED <<xlvars, limg, iter, refined_recs, iters, last_wins, lres>>

\* the pass of refine over the current window
CurrentStep == refine_step(limg, win[1], win[2], largs.radius, iter)

\* (mutant: a candidate refine returns nothing for ends the loop)
CandidateDoneAbort(r) ==
    /\ refined_recs' = Append(refined_recs, r)
    /\ iters' = Append(iters, iter)
    /\ last_wins' = Append(last_wins, win)
    /\ iter' = 0
    /\ IF cur < Len(candidates) /\ r.ok
       THEN loc_pc' = "refine" /\ cur' = cur + 1 /\ win' = candidates[cur + 1]
       ELSE loc_pc' = "filter" /\ UNCHANGED <<cur, win>>

\* refine has returned r for the current candidate: on to the next one
CandidateDone(r) ==
    /\ refined_recs' = Append(refined_recs, r)
    /\ iters' = Append(iters, iter)
    /\ last_wins' = Append(last_wins, win)
    /\ iter' = 0
    /\ IF cur < Len(candidates)
       THEN loc_pc' = "refine" /\ cur' = cur + 1 /\ win' = candidates[cur + 1]
       ELSE loc_pc' = "filter" /\ UNCHANGED <<cur, win>>

\* 4.3 step 4: the centroid is too far from the window centre: re-centre
Recenter ==
    /\ loc_pc = "refine"
    /\ CurrentStep.kind = "move"
    /\ win' = CurrentStep.win
    /\ iter' = iter + 1
    /\ UNCHANGED <<xlvars, loc_pc, limg, largs, candidates, cur,
                   refined_recs, iters, last_wins, lres>>

\* 4.3 failure policy: the candidate is discarded, refine returns nothing
Discard ==
    /\ loc_pc = "refine"
    /\ CurrentStep.kind = "none"
    /\ CandidateDone(NoRecord)
    /\ UNCHANGED <<xlvars, limg, largs, candidates, lres>>

\* 4.3 step 5: convergence or iteration exhaustion: the record
Accept ==
    /\ loc_pc = "refine"
    /\ CurrentStep.kind = "record"
    /\ CandidateDone(CurrentStep.rec)
    /\ UNCHANGED <<xlvars, limg, largs, candidates, lres>>

\* 4.4 on its own: thresholding and deduplication of given records
FilterGiven(records, r, mt) ==
    /\ loc_pc = "idle"
    /\ limg = NoImage
    /\ largs' = [radius |-> r, signal_threshold |-> 0, mass_threshold |-> mt,
                 direct |-> TRUE]
    /\ refined_recs' = records
    /\ iters' = [k \in 1..Len(records) |-> 0]
    /\ last_wins' = [k \in 1..Len(records) |->
                        <<records[k].x \div SubPixel, records[k].y \div SubPixel>>]
    /\ loc_pc' = "filter"
    /\ UNCHANGED <<xlvars, limg, candidates, cur, win, iter, lres>>

\* 4.4: thresholding, then deduplication
FilterDedup ==
    /\ loc_pc = "filter"
    /\ lres' = dedup(filter_features(found_records(refined_recs),
                                     largs.mass_threshold), largs.radius)
    /\ loc_pc' = "done"
    /\ UNCHANGED <<xlvars, limg, largs, candidates, cur, win, iter,
                   refined_recs, iters, last_wins>>

NextLocate ==
    \/ \E r \in LocRadii, st \in LocSignalThresholds, mt \in LocMassThresholds :
          Locate(r, st, mt)
    \/ Recenter
    \/ Discard
    \/ Accept
    \/ \E records \in SeqsUpTo(GivenRecords, MaxGiven), r \in LocRadii,
          mt \in LocMassThresholds : FilterGiven(records, r, mt)
    \/ FilterDedup

SpecLocate == InitLocate /\ [][NextLocate]_vars

LocDone == loc_pc = "done"

\* the step-by-step locate returns what the operator locate computes
LocateStepsAgree ==
    (LocDone /\ ~largs.direct) =>
        lres = locate(limg, largs.radius, largs.signal_threshold, largs.mass_threshold)

----------------------------------------------------------------------------
\* Properties of locate

\* within radius pixels of an edge of the frame: no full disk is available
NearBorder(img, x, y, r) ==
    x < r \/ x > img.w - 1 - r \/ y < r \/ y > img.h - 1 - r

\* the sub-pixel position of a record lies within radius pixels of an edge
\* of the frame
RecordNearBorder(img, rec, r) ==
    \/ rec.x < r * SubPixel \/ rec.x > (img.w - 1 - r) * SubPixel
    \/ rec.y < r * SubPixel \/ rec.y > (img.h - 1 - r) * SubPixel

Degenerate(img, x, y, r) ==
    \/ ~WindowInside(img, x, y, r)
    \/ window_moments(img, x, y, r).mass <= 0

\* C12: refine returns nothing for a candidate exactly if its (last) window
\* is degenerate; locate then goes on with the remaining candidates, so that
\* every candidate has been handed to refine when the loop ends, and every
\* record of the table locate returns stems from a candidate that was not
\* discarded, has mass > 0 and a position inside the frame.
C12_DegenerateDropped ==
    ~largs.direct =>
        /\ \A k \in 1..Len(refined_recs) :
              /\ refined_recs[k].ok <=>
                    ~Degenerate(limg, last_wins[k][1], last_wins[k][2], largs.radius)
              /\ ~refined_recs[k].ok => refined_recs[k] = NoRecord
              /\ refined_recs[k].ok => refined_recs[k].mass > 0
        /\ loc_pc \in {"filter", "done"} => Len(refined_recs) = Len(candidates)
        /\ LocDone =>
              \A k \in 1..Len(lres) :
                  /\ lres[k].mass > 0
                  /\ lres[k].x >= 0 /\ lres[k].x <= (limg.w - 1) * SubPixel
                  /\ lres[k].y >= 0 /\ lres[k].y <= (limg.h - 1) * SubPixel
                  /\ \E j \in 1..Len(refined_recs) :
                        /\ refined_recs[j].ok
                        /\ lres[k] = [x |-> refined_recs[j].x, y |-> refined_recs[j].y,
                                      mass |-> refined_recs[j].mass]

\* refine discarded a candidate, and a later candidate of the frame became
\* a record of the table
C12_Witness ==
    /\ LocDone /\ ~largs.direct
    /\ \E k, j \in 1..Len(refined_recs) :
          /\ k < j /\ ~refined_recs[k].ok /\ refined_recs[j].ok
          /\ \E i \in 1..Len(lres) :
                lres[i].x = refined_recs[j].x /\ lres[i].y = refined_recs[j].y

\* C13: the refinement of one candidate terminates: its window is
\* re-centred at most MaxIter times; every step of the refinement either
\* re-centres the window, which happens only while the centroid lies more
\* than epsilon from the window centre and the cap is not reached, or ends
\* the candidate; a candidate that ends with a valid window, also one that
\* has used up the MaxIter re-centrings without converging, yields the
\* record of its last window.
C13_RefinementTerminates ==
    [][/\ iter <= MaxIter /\ iter' <= MaxIter
       /\ loc_pc = "refine" =>
            LET x == win[1]
                y == win[2]
                r == largs.radius
                valid == ~Degenerate(limg, x, y, r)
                recentred == cur' = cur /\ loc_pc' = "refine" /\ iter' = iter + 1
                ended == /\ Len(refined_recs') = Len(refined_recs) + 1
                         /\ iters'[cur] = iter /\ iter' = 0
            IN /\ recentred \/ ended
               /\ win' # win /\ cur' = cur =>
                     /\ recentred /\ valid /\ iter < MaxIter
                     /\ shift_exceeds_epsilon(window_moments(limg, x, y, r))
               /\ ended /\ valid =>
                     LET m == window_moments(limg, x, y, r)
                     IN refined_recs'[cur] =
                           [ok |-> TRUE,
                            x |-> x * SubPixel + RoundDiv(m.mx * SubPixel, m.mass),
                            y |-> y * SubPixel + RoundDiv(m.my * SubPixel, m.mass),
                            mass |-> m.mass]]_vars

\* a candidate used up the MaxIter re-centrings and its last window became
\* the record while the centroid was still more than epsilon off
C13_Witness ==
    \E k \in 1..Len(refined_recs) :
        /\ iters[k] = MaxIter /\ refined_recs[k].ok
        /\ shift_exceeds_epsilon(
              window_moments(limg, last_wins[k][1], last_wins[k][2], largs.radius))

\* the records that passed the mass threshold, before deduplication
BeforeDedup ==
    filter_features(found_records(refined_recs), largs.mass_threshold)

\* C14: no two records of the table locate returns lie within radius / 2
\* of each other; the deduplication only removes records, never one whose
\* mass is larger than that of every other record within radius / 2 of it,
\* and of two records that close with different masses the one with the
\* smaller mass is never kept.
C14_Deduplicated ==
    LocDone =>
        LET pre == BeforeDedup
            kept == {lres[k] : k \in 1..Len(lres)}
        IN /\ \A i, j \in 1..Len(lres) :
                 i # j => ~TooClose(lres[i], lres[j], largs.radius)
           /\ kept \subseteq {pre[k] : k \in 1..Len(pre)}
           /\ \A i \in 1..Len(pre) :
                 (\A j \in 1..Len(pre) :
                     (j # i /\ TooClose(pre[i], pre[j], largs.radius)) =>
                         pre[j].mass < pre[i].mass) => pre[i] \in kept
           /\ \A i, j \in 1..Len(pre) :
                 (TooClose(pre[i], pre[j], largs.radius) /\ pre[i].mass < pre[j].mass)
                     => pre[i] \notin kept

\* a record was dropped for a record of larger mass within radius / 2 that
\* came after it, and two records were kept
C14_Witness ==
    /\ LocDone /\ Len(lres) >= 2
    /\ \E i, j \in 1..Len(BeforeDedup) :
          /\ i < j /\ TooClose(BeforeDedup[i], BeforeDedup[j], largs.radius)
          /\ BeforeDedup[i].mass < BeforeDedup[j].mass

\* two candidates of one frame were refined to the same position, and
\* locate returned one record for them
DuplicateCandidates ==
    /\ LocDone /\ ~largs.direct
    /\ Len(lres) < Len(BeforeDedup)

\* the pixels next to p in its row and column
Neighbours4(img, p) ==
    {q \in {<<p[1] + 1, p[2]>>, <<p[1] - 1, p[2]>>, <<p[1], p[2] + 1>>,
            <<p[1], p[2] - 1>>} : InImage(img, q[1], q[2])}

RECURSIVE GrowPlateau(_, _, _)
\* the connected set of pixels of equal value around S (given up once it
\* has more than limit pixels)
GrowPlateau(img, S, limit) ==
    LET v == Pix(img, (CHOOSE p \in S : TRUE)[1], (CHOOSE p \in S : TRUE)[2])
        N == S \cup {q \in UNION {Neighbours4(img, p) : p \in S} :
                        Pix(img, q[1], q[2]) = v}
    IN IF N = S \/ Cardinality(N) > limit THEN N ELSE GrowPlateau(img, N, limit)

\* the connected plateau of equal-valued pixels p belongs to
Plateau(img, p, r) == GrowPlateau(img, {p}, Cardinality(Disk(r)))

FirstInRaster(P) == CHOOSE p \in P : \A q \in P \ {p} : RasterLess(p, q)

\* the plateau lies within the disk (around any of its pixels), is above
\* signal_threshold, and every other pixel of the disks is below it
MaximalPlateau(img, P, r, signal_threshold) ==
    LET p0 == FirstInRaster(P)
        v == Pix(img, p0[1], p0[2])
    IN /\ v > signal_threshold
       /\ \A p, q \in P : <<q[1] - p[1], q[2] - p[2]>> \in Disk(r)
       /\ \A q \in P, d \in Disk(r) :
             LET n == <<q[1] + d[1], q[2] + d[2]>>
             IN (InImage(img, n[1], n[2]) /\ n \notin P) => Pix(img, n[1], n[2]) < v

\* the finder has just returned
FinderReturned ==
    /\ loc_pc \in {"refine", "filter"} /\ ~largs.direct
    /\ iter = 0 /\ refined_recs = <<>>

CandidateSet == {candidates[k] : k \in 1..Len(candidates)}

InRasterOrder ==
    \A i, j \in 1..Len(candidates) :
        i < j => RasterLess(candidates[i], candidates[j])

BrightPixels ==
    {p \in Pixels(limg.w, limg.h) : Pix(limg, p[1], p[2]) > largs.signal_threshold}

\* C15 as stated: the candidates come in raster order, and every connected
\* plateau that is maximal within the disk and above signal_threshold has
\* exactly one candidate, its first pixel in raster order.
C15_Original ==
    FinderReturned =>
        /\ InRasterOrder
        /\ \A p \in BrightPixels :
              LET P == Plateau(limg, p, largs.radius)
              IN MaximalPlateau(limg, P, largs.radius, largs.signal_threshold) =>
                    CandidateSet \cap P = {FirstInRaster(P)}

\* C15: the candidates come in raster order, and every connected plateau
\* that is maximal within the disk and above signal_threshold has exactly
\* one candidate, its first pixel in raster order, if that pixel does not
\* lie within radius of the border, and no candidate if it does.
C15_RasterOrderPlateau ==
    FinderReturned =>
        /\ InRasterOrder
        /\ \A p \in BrightPixels :
              LET P == Plateau(limg, p, largs.radius)
              IN MaximalPlateau(limg, P, largs.radius, largs.signal_threshold) =>
                    CandidateSet \cap P =
                        IF NearBorder(limg, FirstInRaster(P)[1], FirstInRaster(P)[2],
                                      largs.radius)
                        THEN {} ELSE {FirstInRaster(P)}

\* the finder returned two candidates, one of them the first pixel of a
\* plateau of several pixels
C15_Witness ==
    /\ FinderReturned /\ Len(candidates) >= 2
    /\ \E p \in BrightPixels :
          LET P == Plateau(limg, p, largs.radius)
          IN /\ Cardinality(P) >= 2
             /\ MaximalPlateau(limg, P, largs.radius, largs.signal_threshold)
             /\ FirstInRaster(P) \in CandidateSet

----------------------------------------------------------------------------
\* ROI and PathROI applied to the caller's data (roi.py)
\*
\* A feature table is a sequence of rows [id, x, y]; id is the row's index
\* label, which the selections keep.  What a call returns is described by
\* its content and by how it is tied to the caller's object: a "copy", the
\* "same" object, or a "view" of it (a numpy slice).

\* ROI.__init__, lines 54-55
ROI_init(tl, br) ==
    [cls |-> "ROI", top_left |-> tl, bottom_right |-> br]

\* PathROI.__init__, lines 179-207
PathROI_init(path, buffer, no_image, on_edge) ==
    [cls |-> "PathROI", path |-> path, buffer |-> buffer,
     top_left |-> top_left(path), bottom_right |-> bottom_right(path),
     has_mask |-> ~no_image,
     img_mask |-> IF no_image THEN <<>> ELSE image_mask(path, buffer, on_edge),
     on_edge |-> on_edge]

NoTable == [called |-> FALSE, reset_origin |-> FALSE, rows |-> <<>>,
            alias |-> "copy", error |-> "none"]
NoCrop == [called |-> FALSE, img |-> NoImage, alias |-> "copy", off |-> <<0, 0>>,
           error |-> "none"]

\* roi_data.loc[:, x] -= top_left[0]; roi_data.loc[:, y] -= top_left[1]
shift_origin(rows, tl) ==
    [k \in 1..Len(rows) |-> [rows[k] EXCEPT !.x = @ - tl[1], !.y = @ - tl[2]]]

\* (mutant: the origin is reset for the inverted selection as well)
ROI_call_table_reset(obj, data, reset_origin, invert) ==
    LET mask(row) == /\ row.x > obj.top_left[1] /\ row.x < obj.bottom_right[1]
                     /\ row.y > obj.top_left[2] /\ row.y < obj.bottom_right[2]
        roi_data == IF invert THEN SelectSeq(data, LAMBDA row : ~mask(row))
                    ELSE SelectSeq(data, mask)
    IN [called |-> TRUE, reset_origin |-> reset_origin,
        rows |-> IF reset_origin THEN shift_origin(roi_data, obj.top_left)
                 ELSE roi_data,
        alias |-> "copy", error |-> "none"]

\* ROI.__call__ on a DataFrame, lines 87-102
ROI_call_table(obj, data, reset_origin, invert) ==
    LET mask(row) == /\ row.x > obj.top_left[1] /\ row.x < obj.bottom_right[1]
                     /\ row.y > obj.top_left[2] /\ row.y < obj.bottom_right[2]
        roi_data == IF invert THEN SelectSeq(data, LAMBDA row : ~mask(row))
                    ELSE SelectSeq(data, mask)
    IN [called |-> TRUE, reset_origin |-> reset_origin,
        rows |-> IF reset_origin /\ ~invert THEN shift_origin(roi_data, obj.top_left)
                 ELSE roi_data,
        alias |-> "copy", error |-> "none"]

\* ROI.__call__ on an image, lines 105-109: a slice of the caller's array
ROI_call_image(obj, img) ==
    LET sx == PySlice(obj.top_left[1], obj.bottom_right[1], img.w)
        sy == PySlice(obj.top_left[2], obj.bottom_right[2], img.h)
        cw == sx.hi - sx.lo
        ch == sy.hi - sy.lo
    IN [called |-> TRUE,
        img |-> [w |-> cw, h |-> ch,
                 px |-> [q \in Pixels(cw, ch) |-> Pix(img, sx.lo + q[1], sy.lo + q[2])]],
        alias |-> "view", off |-> <<sx.lo, sy.lo>>, error |-> "none"]

\* (mutant: the image mask is asked for before the kind of data is looked at)
PathROI_call_table_mask(obj, data, reset_origin, invert) ==
    IF ~obj.has_mask
    THEN [called |-> TRUE, reset_origin |-> reset_origin, rows |-> <<>>,
          alias |-> "copy", error |-> "ValueError"]
    ELSE IF Len(data) = 0
    THEN [called |-> TRUE, reset_origin |-> reset_origin, rows |-> data,
          alias |-> "same", error |-> "none"]
    ELSE [called |-> TRUE, reset_origin |-> reset_origin,
          rows |-> IF invert
                   THEN SelectSeq(data, LAMBDA row :
                            ~contains_point(obj.path, 2 * row.x, 2 * row.y, 0, obj.on_edge))
                   ELSE roi_filter(obj.path, data, reset_origin, obj.on_edge, 1),
          alias |-> "copy", error |-> "none"]

\* PathROI.__call__ on a DataFrame, lines 263-277
PathROI_call_table(obj, data, reset_origin, invert) ==
    IF Len(data) = 0
    THEN [called |-> TRUE, reset_origin |-> reset_origin, rows |-> data,
          alias |-> "same", error |-> "none"]
    ELSE [called |-> TRUE, reset_origin |-> reset_origin,
          rows |-> IF invert
                   THEN SelectSeq(data, LAMBDA row :
                            ~contains_point(obj.path, 2 * row.x, 2 * row.y, 0, obj.on_edge))
                   ELSE roi_filter(obj.path, data, reset_origin, obj.on_edge, 1),
          alias |-> "copy", error |-> "none"]

\* PathROI.__call__.crop with a number as fill_value, lines 285-303
crop_value(img, path, buffer, on_edge, fill_value) ==
    LET tlc == top_left(path)
        brc == bottom_right(path)
        mask == image_mask(path, buffer, on_edge)
        mw == brc[1] - tlc[1]
        mh == brc[2] - tlc[2]
        tl_shift == <<Max(0 - tlc[1], 0), Max(0 - tlc[2], 0)>>
        br_shift == <<Min(img.w - brc[1], 0), Min(img.h - brc[2], 0)>>
        tl == <<tlc[1] + tl_shift[1], tlc[2] + tl_shift[2]>>
        br == <<brc[1] + br_shift[1], brc[2] + br_shift[2]>>
        sx == PySlice(tl[1], br[1], img.w)
        sy == PySlice(tl[2], br[2], img.h)
        mx == PySlice(tl_shift[1], IF br_shift[1] = 0 THEN mw ELSE br_shift[1], mw)
        my == PySlice(tl_shift[2], IF br_shift[2] = 0 THEN mh ELSE br_shift[2], mh)
        cw == sx.hi - sx.lo
        ch == sy.hi - sy.lo
    IN [w |-> cw, h |-> ch,
        px |-> [q \in Pixels(cw, ch) |->
                  IF mask[<<mx.lo + q[1], my.lo + q[2]>>]
                  THEN Pix(img, sx.lo + q[1], sy.lo + q[2]) ELSE fill_value]]

\* fill_value: "mean" or a number
FillValues == [mean : {TRUE}, v : {0}] \cup [mean : {FALSE}, v : {0, 3}]

\* PathROI.__call__ on an image, lines 279-304
PathROI_call_image(obj, img, fill_value) ==
    IF ~obj.has_mask
    THEN [NoCrop EXCEPT !.called = TRUE, !.error = "ValueError"]
    ELSE IF fill_value.mean /\ crop(img, obj.path, obj.buffer, obj.on_edge) = NanCast
    THEN [NoCrop EXCEPT !.called = TRUE, !.error = "ValueError"]
    ELSE [called |-> TRUE,
          img |-> IF fill_value.mean
                  THEN crop(img, obj.path, obj.buffer, obj.on_edge)
                  ELSE crop_value(img, obj.path, obj.buffer, obj.on_edge, fill_value.v),
          alias |-> "copy", off |-> <<0, 0>>, error |-> "none"]

call_table(obj, data, reset_origin, invert) ==
    IF obj.cls = "ROI" THEN ROI_call_table(obj, data, reset_origin, invert)
    ELSE PathROI_call_table(obj, data, reset_origin, invert)

call_image(obj, img, fill_value) ==
    IF obj.cls = "ROI" THEN ROI_call_image(obj, img)
    ELSE PathROI_call_image(obj, img, fill_value)

\* Inputs
ObjPaths == {q \in Paths : q.Y0 = 2 /\ q.X1 - q.X0 = 6}
ObjBuffers == {0, 1}
RoiObjects ==
    {PathROI_init(q, b, n, e) :
        q \in ObjPaths, b \in ObjBuffers, n \in BOOLEAN, e \in BOOLEAN}
    \cup {ROI_init(<<1, 1>>, <<4, 4>>), ROI_init(<<0, 1>>, <<3, FrameH>>)}

MaxRows == 2
TablePoints == {<<0, 0>>, <<2, 2>>, <<4, 3>>}
Tables ==
    {[k \in 1..Len(pts) |-> [id |-> k, x |-> pts[k][1], y |-> pts[k][2]]] :
        pts \in SeqsUpTo(TablePoints, MaxRows)}
ObjImages ==
    {MakeImage(FrameW, FrameH, {[pos |-> <<2, 2>>, v |-> 2]}),
     MakeImage(FrameW, FrameH, {[pos |-> <<1, 1>>, v |-> 1], [pos |-> <<3, 2>>, v |-> 2]})}

\* the value the caller writes into what a call returned
NewValue == 9

InitObj ==
    /\ p_pc = "idle"
    /\ p_obj \in RoiObjects
    /\ p_in \in [rows : Tables, img : ObjImages]
    /\ p_orig = p_in
    /\ p_res = [inv \in BOOLEAN |-> NoTable]
    /\ p_crop = NoCrop
    /\ BatchOff
    /\ RoiOff
    /\ LocOff
    /\ ListOff
    /\ DictOff

\* roi(table, reset_origin=..., invert=...)
CallTable(reset_origin, invert) ==
    /\ p_pc = "idle"
    /\ ~p_res[invert].called
    /\ p_res' = [p_res EXCEPT ![invert] = call_table(p_obj, p_in.rows, reset_origin, invert)]
    /\ UNCHANGED <<xpvars, p_pc, p_obj, p_in, p_orig, p_crop>>

\* roi(image, fill_value=...)
CallImage(fill_value) ==
    /\ p_pc = "idle"
    /\ ~p_crop.called
    /\ p_crop' = call_image(p_obj, p_in.img, fill_value)
    /\ UNCHANGED <<xpvars, p_pc, p_obj, p_in, p_orig, p_res>>

\* the caller appends a row to a table a call returned
ModifyTable(invert) ==
    /\ p_pc = "idle"
    /\ p_res[invert].called /\ p_res[invert].error = "none"
    /\ LET rows == Append(p_res[invert].rows, [id |-> NewValue, x |-> NewValue, y |-> NewValue])
           same == p_res[invert].alias = "same"
       IN /\ p_res' = [i \in BOOLEAN |->
                          IF i = invert \/ (same /\ p_res[i].called /\ p_res[i].alias = "same")
                          THEN [p_res[i] EXCEPT !.rows = rows] ELSE p_res[i]]
          /\ p_in' = IF same THEN [p_in EXCEPT !.rows = rows] ELSE p_in
    /\ p_pc' = "modified"
    /\ UNCHANGED <<xpvars, p_obj, p_orig, p_crop>>

\* the caller writes a pixel of an image a call returned
ModifyImage(q) ==
    /\ p_pc = "idle"
    /\ p_crop.called /\ p_crop.error = "none"
    /\ InImage(p_crop.img, q[1], q[2])
    /\ p_crop' = [p_crop EXCEPT !.img.px[q] = NewValue]
    /\ p_in' = IF p_crop.alias = "view"
               THEN [p_in EXCEPT !.img.px[<<p_crop.off[1] + q[1], p_crop.off[2] + q[2]>>] = NewValue]
               ELSE p_in
    /\ p_pc' = "modified"
    /\ UNCHANGED <<xpvars, p_obj, p_orig, p_res>>

NextObj ==
    \/ \E ro \in BOOLEAN, inv \in BOOLEAN : CallTable(ro, inv)
    \/ \E fv \in FillValues : CallImage(fv)
    \/ \E inv \in BOOLEAN : ModifyTable(inv)
    \/ \E q \in {<<0, 0>>, <<1, 1>>} : ModifyImage(q)

SpecObj == InitObj /\ [][NextObj]_vars

----------------------------------------------------------------------------
\* Properties of ROI and PathROI

\* no call has returned anything the caller has modified since
Unmodified == p_pc = "idle"

\* the PathROI of the same path and buffer with an image mask
WithMask(obj) == PathROI_init(obj.path, obj.buffer, FALSE, obj.on_edge)

\* C16: a PathROI constructed with no_image=True raises ValueError when it
\* is applied to an image, and crops nothing; applied to a feature table it
\* returns what the PathROI with an image mask returns for that table.
C16_NoImageMask ==
    (Unmodified /\ p_obj.cls = "PathROI" /\ ~p_obj.has_mask) =>
        /\ p_crop.called => (p_crop.error = "ValueError" /\ p_crop.img = NoImage)
        /\ \A inv \in BOOLEAN :
              p_res[inv].called =>
                /\ p_res[inv].error = "none"
                /\ p_res[inv] = PathROI_call_table(WithMask(p_obj), p_orig.rows,
                                                   p_res[inv].reset_origin, inv)

\* a PathROI without image mask raised ValueError for the image, and kept
\* one of the two rows of the table
C16_Witness ==
    /\ Unmodified /\ p_obj.cls = "PathROI" /\ ~p_obj.has_mask
    /\ p_crop.called /\ p_crop.error = "ValueError"
    /\ p_res[FALSE].called /\ Len(p_res[FALSE].rows) = 1 /\ Len(p_orig.rows) = 2

\* C17: for a feature table and a ROI or PathROI the rows selected with
\* invert=True and those selected with invert=False, reset_origin=False are
\* disjoint and together are the rows of the table; the rows selected with
\* invert=True have the coordinates they have in the table, whatever
\* reset_origin is.
C17_InvertPartition ==
    Unmodified =>
        LET outside == SeqSet(p_res[TRUE].rows)
            inside == SeqSet(p_res[FALSE].rows)
        IN /\ (/\ p_res[TRUE].called /\ p_res[FALSE].called
                /\ ~p_res[FALSE].reset_origin) =>
                  /\ outside \cap inside = {}
                  /\ outside \cup inside = SeqSet(p_orig.rows)
                  /\ Len(p_res[TRUE].rows) + Len(p_res[FALSE].rows) = Len(p_orig.rows)
           /\ p_res[TRUE].called => outside \subseteq SeqSet(p_orig.rows)

\* a table of two rows, one selected with invert=False and the other with
\* invert=True, reset_origin=True
C17_Witness ==
    /\ Unmodified
    /\ p_res[TRUE].called /\ p_res[TRUE].reset_origin /\ Len(p_res[TRUE].rows) = 1
    /\ p_res[FALSE].called /\ ~p_res[FALSE].reset_origin /\ Len(p_res[FALSE].rows) = 1

\* C18: applying a ROI or a PathROI to a feature table or an image leaves
\* the caller's data as it was, and so does a later modification of what
\* the call returned, whatever reset_origin, invert and fill_value are, for
\* an empty table as well.
C18_InputUnchanged ==
    p_pc \in {"idle", "modified"} => p_in = p_orig

----------------------------------------------------------------------------
\* ListModel (gui/item_models.py)
\*
\* Python lists are objects: heap maps the identity of a list to its
\* elements, and a ListModel's _data refers to one of them.

\* the models
Models == {1}
\* the list a model creates in __init__ (line 31) has the model's number;
\* the list that is the default value of reset's parameter (line 295)
DefaultList == 0
\* a list the caller hands to reset
CallerList == 3
\* the list the last toList() created
ReturnedList == 4
\* a tuple the caller hands to reset: a sequence that cannot be changed
CallerTuple == 5
ListIds == Models \cup {DefaultList, CallerList, ReturnedList, CallerTuple}

\* the object is a list (it has insert, copy, item and slice assignment)
is_list(ref) == ref # CallerTuple

\* list elements, and the longest list of the model
Elems == {1}
\* the roles arguments handed to notifyChange
NotifiedRoles == {<<>>, <<"modelData">>, <<"colour">>}
MaxLen == 2

rowCount(m) == Len(heap[data_ref[m]])

\* the count property, lines 320-322
count(m) == rowCount(m)

\* what a call handed back: a value, or an exception
Returned(v) == [val |-> v, raised |-> "none"]
Raised(e) == [val |-> "nothing", raised |-> e]

\* list.insert(index, obj)
list_insert(l, index, obj) ==
    LET n == Len(l)
        i == IF index < 0 THEN Max(index + n, 0) ELSE Min(index, n)
    IN SubSeq(l, 1, i) \o <<obj>> \o SubSeq(l, i + 1, n)

\* del l[start:stop]
list_del_slice(l, start, stop) ==
    LET sl == PySlice(start, stop, Len(l))
    IN SubSeq(l, 1, sl.lo) \o SubSeq(l, sl.hi + 1, Len(l))

\* (mutant: no finally, a body that raises skips the end)
insertRows_no_finally(raised) ==
    IF raised THEN <<"beginInsertRows">>
    ELSE <<"beginInsertRows", "endInsertRows", "countChanged">>

\* ListModel._insertRows, lines 169-174, around a body that raises or not:
\* what the model emits.  endInsertRows emits rowsInserted, which is
\* connected to countChanged (line 33).
insertRows(raised) == <<"beginInsertRows", "endInsertRows", "countChanged">>

\* ListModel._removeRows, lines 187-192; rowsRemoved is connected to
\* countChanged (line 34)
removeRows(raised) == <<"beginRemoveRows", "endRemoveRows", "countChanged">>

\* ListModel._resetModel, lines 197-201; modelReset is connected to
\* countChanged (line 32)
resetModel(raised) == <<"beginResetModel", "endResetModel", "countChanged">>

\* Qt.UserRole, the id of the first role of a model (lines 22 and 358)
UserRole == 256

\* the names of ListModel.Roles, lines 20-22
ListRoles == {"modelData"}

\* ListModel._emitDataChanged, lines 144-146, the slot of elementsChanged:
\* self.Roles[r] raises KeyError for a name that is no role, before
\* dataChanged is emitted
emitDataChanged(roles) ==
    IF \A k \in 1..Len(roles) : roles[k] \in ListRoles
    THEN [signals |-> <<"dataChanged">>, ret |-> Returned("None")]
    ELSE [signals |-> <<>>, ret |-> Raised("KeyError")]

\* the interpreter was ended by PyQt5 (qFatal) for an exception that left
\* a slot while no exception hook was installed
Aborted == [val |-> "nothing", raised |-> "abort"]
ProcessAborted == ret = Aborted

\* ListModel.notifyChange, line 127: emits elementsChanged, whose slot runs
\* within the emit; index and count go into the signals' arguments only.
\* An exception of the slot does not come back through emit(): with an
\* exception hook installed (hook) it is handed to the hook and
\* notifyChange returns None, without one PyQt5 ends the process.
notifyChange(roles, hook) ==
    LET r == emitDataChanged(roles)
    IN [signals |-> <<"elementsChanged">> \o r.signals,
        ret |-> IF r.ret.raised = "none" \/ hook THEN Returned("None") ELSE Aborted]

\* ListModel.insert, lines 231-234, on the list object ref
insert(h, ref, index, obj) ==
    LET raised == ~is_list(ref)
    IN [heap |-> IF raised THEN h ELSE [h EXCEPT ![ref] = list_insert(@, index, obj)],
        signals |-> insertRows(raised),
        ret |-> IF raised THEN Raised("AttributeError") ELSE Returned("None")]

\* (mutant: set without the test of line 266)
set_unchecked(h, ref, index, obj) ==
    LET n == Len(h[ref])
        i == IF index < 0 THEN index + n ELSE index
    IN IF index = n
       THEN [insert(h, ref, n, obj) EXCEPT !.ret = IF @.raised = "none" THEN Returned("True") ELSE @]
       ELSE IF ~is_list(ref) THEN [heap |-> h, signals |-> <<>>, ret |-> Raised("TypeError")]
       ELSE IF ~(0 <= i /\ i < n) THEN [heap |-> h, signals |-> <<>>, ret |-> Raised("IndexError")]
       ELSE [heap |-> [h EXCEPT ![ref][i + 1] = obj], signals |-> notifyChange(<<>>, TRUE).signals,
             ret |-> Returned("True")]

\* ListModel.set, lines 263-270
set(h, ref, index, obj) ==
    LET n == Len(h[ref])
    IN IF index = n
       THEN [insert(h, ref, n, obj) EXCEPT !.ret = IF @.raised = "none" THEN Returned("True") ELSE @]
       ELSE IF ~(0 <= index /\ index < n)
       THEN [heap |-> h, signals |-> <<>>, ret |-> Returned("False")]
       ELSE IF ~is_list(ref) THEN [heap |-> h, signals |-> <<>>, ret |-> Raised("TypeError")]
       ELSE [heap |-> [h EXCEPT ![ref][index + 1] = obj], signals |-> notifyChange(<<>>, TRUE).signals,
             ret |-> Returned("True")]

\* ListModel.setData, lines 105-109: valid and row are index.isValid() and
\* index.row() of the QModelIndex
setData(h, ref, valid, row, value, role) ==
    IF ~(valid /\ 0 <= row /\ row < Len(h[ref]) /\ role = UserRole)
    THEN [heap |-> h, signals |-> <<>>, ret |-> Returned("False")]
    ELSE set(h, ref, row, value)

\* ListModel.remove, lines 284-285
remove(h, ref, index, cnt) ==
    LET raised == ~is_list(ref)
    IN [heap |-> IF raised THEN h
                 ELSE [h EXCEPT ![ref] = list_del_slice(@, index, index + cnt)],
        signals |-> removeRows(raised),
        ret |-> IF raised THEN Raised("TypeError") ELSE Returned("None")]

\* (mutant: toList hands out the model's own list)
toList_same(h, ref) == [heap |-> h, ref |-> ref]

\* ListModel.toList, line 316: self._data.copy()
toList(h, ref) == [heap |-> [h EXCEPT ![ReturnedList] = h[ref]], ref |-> ReturnedList]

NoReturned == [ref |-> None, of |-> 0]

InitList ==
    /\ heap = [i \in ListIds |-> IF i \in {CallerList, CallerTuple} THEN <<2>> ELSE <<>>]
    /\ data_ref = [m \in Models |-> m]
    /\ ret_ref = NoReturned
    /\ last_op = [op |-> "init", m |-> 0]
    /\ ret = Returned("None")
    /\ signals = <<>>
    /\ BatchOff
    /\ RoiOff
    /\ LocOff
    /\ PathOff
    /\ DictOff

\* model.insert(index, obj)
Insert(m, index, obj) ==
    /\ ~ProcessAborted
    /\ rowCount(m) < MaxLen
    /\ LET r == insert(heap, data_ref[m], index, obj) IN
         /\ heap' = r.heap
         /\ signals' = r.signals
         /\ ret' = r.ret
    /\ last_op' = [op |-> "insert", m |-> m]
    /\ UNCHANGED <<xmvars, data_ref, ret_ref>>

\* ListModel.append, line 245
ModelAppend(m, obj) ==
    /\ ~ProcessAborted
    /\ rowCount(m) < MaxLen
    /\ LET r == insert(heap, data_ref[m], rowCount(m), obj) IN
         /\ heap' = r.heap
         /\ signals' = r.signals
         /\ ret' = r.ret
    /\ last_op' = [op |-> "append", m |-> m]
    /\ UNCHANGED <<xmvars, data_ref, ret_ref>>

\* model.set(index, obj)
Set(m, index, obj) ==
    /\ ~ProcessAborted
    /\ index = rowCount(m) => rowCount(m) < MaxLen
    /\ LET r == set(heap, data_ref[m], index, obj) IN
         /\ heap' = r.heap
         /\ signals' = r.signals
         /\ ret' = r.ret
    /\ last_op' = [op |-> "set", m |-> m, index |-> index, obj |-> obj]
    /\ UNCHANGED <<xmvars, data_ref, ret_ref>>

\* model.setData(index, value, role)
SetData(m, valid, row, value, role) ==
    /\ ~ProcessAborted
    /\ LET r == setData(heap, data_ref[m], valid, row, value, role) IN
         /\ heap' = r.heap
         /\ signals' = r.signals
         /\ ret' = r.ret
    /\ last_op' = [op |-> "setData", m |-> m]
    /\ UNCHANGED <<xmvars, data_ref, ret_ref>>

\* model.notifyChange(index, count, roles)
NotifyChange(m, index, cnt, roles, hook) ==
    /\ ~ProcessAborted
    /\ LET r == notifyChange(roles, hook) IN
         /\ signals' = r.signals
         /\ ret' = r.ret
    /\ last_op' = [op |-> "notifyChange", m |-> m]
    /\ UNCHANGED <<xmvars, heap, data_ref, ret_ref>>

\* model.remove(index, count)
Remove(m, index, cnt) ==
    /\ ~ProcessAborted
    /\ LET r == remove(heap, data_ref[m], index, cnt) IN
         /\ heap' = r.heap
         /\ signals' = r.signals
         /\ ret' = r.ret
    /\ last_op' = [op |-> "remove", m |-> m]
    /\ UNCHANGED <<xmvars, data_ref, ret_ref>>

\* ListModel.reset, lines 303-304: self._data = data.  The list the model
\* referred to is dropped if it was the model's own.
reset(m, data) ==
    /\ data_ref' = [data_ref EXCEPT ![m] = data]
    /\ heap' = IF data_ref[m] = m /\ data # m THEN [heap EXCEPT ![m] = <<>>] ELSE heap
    /\ signals' = resetModel(FALSE)
    /\ ret' = Returned("None")

\* ListModel.reset(data) with a list or a tuple of the caller
Reset(m, data) ==
    /\ ~ProcessAborted
    /\ reset(m, data)
    /\ last_op' = [op |-> "reset", m |-> m]
    /\ UNCHANGED <<xmvars, ret_ref>>

\* ListModel.clear, line 293: reset() with the default value of data
Clear(m) ==
    /\ ~ProcessAborted
    /\ reset(m, DefaultList)
    /\ last_op' = [op |-> "clear", m |-> m]
    /\ UNCHANGED <<xmvars, ret_ref>>

\* l = model.toList(); a tuple has no copy()
ToList(m) ==
    /\ ~ProcessAborted
    /\ IF is_list(data_ref[m])
       THEN /\ heap' = toList(heap, data_ref[m]).heap
            /\ ret_ref' = [ref |-> toList(heap, data_ref[m]).ref, of |-> m]
            /\ ret' = Returned("list")
       ELSE /\ UNCHANGED <<heap, ret_ref>>
            /\ ret' = Raised("AttributeError")
    /\ signals' = <<>>
    /\ last_op' = [op |-> "toList", m |-> m]
    /\ UNCHANGED <<xmvars, data_ref>>

\* the caller adds an element to the returned list, removes its last
\* element or replaces its first one
ModifyReturned(how) ==
    /\ ~ProcessAborted
    /\ ret_ref.ref # None
    /\ LET l == heap[ret_ref.ref] IN
         /\ how = "add" => Len(l) < MaxLen
         /\ how \in {"remove", "replace"} => Len(l) > 0
         /\ heap' = [heap EXCEPT ![ret_ref.ref] =
                        IF how = "add" THEN Append(l, NewValue)
                        ELSE IF how = "remove" THEN SubSeq(l, 1, Len(l) - 1)
                        ELSE [l EXCEPT ![1] = NewValue]]
    /\ last_op' = [op |-> "modify", m |-> ret_ref.of]
    /\ UNCHANGED <<xmvars, data_ref, ret_ref, ret, signals>>

NextList ==
    \/ \E m \in Models, index \in (-1)..MaxLen, obj \in Elems : Insert(m, index, obj)
    \/ \E m \in Models, obj \in Elems : ModelAppend(m, obj)
    \/ \E m \in Models, index \in (-1)..(MaxLen + 1), obj \in Elems : Set(m, index, obj)
    \/ \E m \in Models, valid \in BOOLEAN, row \in (-1)..MaxLen, value \in Elems,
          role \in {UserRole, UserRole + 1} : SetData(m, valid, row, value, role)
    \/ \E m \in Models, index \in {0, MaxLen + 3}, cnt \in {1}, roles \in NotifiedRoles,
          hook \in BOOLEAN : NotifyChange(m, index, cnt, roles, hook)
    \/ \E m \in Models, index \in (-1)..MaxLen, cnt \in {1, 2} : Remove(m, index, cnt)
    \/ \E m \in Models, data \in {CallerList, CallerTuple} : Reset(m, data)
    \/ \E m \in Models : Clear(m)
    \/ \E m \in Models : ToList(m)
    \/ \E how \in {"add", "remove", "replace"} : ModifyReturned(how)

SpecList == InitList /\ [][NextList]_vars

----------------------------------------------------------------------------
\* Properties of ListModel

\* the elements of the models
ModelElements == [m \in Models |-> heap[data_ref[m]]]

\* C19: toList() returns a list with the model's elements that is not the
\* model's: adding, removing or replacing elements of the returned list
\* changes neither the elements of a model nor its rowCount(), whatever was
\* done to the models before (reset with a list of the caller included).
C19_ToListCopies ==
    [][/\ (last_op'.op = "toList" /\ ret'.raised = "none") =>
            /\ heap'[ret_ref'.ref] = heap[data_ref[last_op'.m]]
            /\ ModelElements' = ModelElements
       /\ last_op'.op = "modify" => ModelElements' = ModelElements]_vars

\* the model was reset with the caller's list, and the list toList()
\* returned for it has been modified and differs from the model's elements
C19_Witness ==
    /\ last_op.op = "modify"
    /\ data_ref[last_op.m] = CallerList
    /\ heap[CallerList] # <<>>
    /\ heap[ret_ref.ref] # heap[CallerList]

\* C20: after clear() the model holds no elements: rowCount() is 0 (and
\* toList() empty), whatever was done before to this or another model.
C20_ClearEmpties ==
    last_op.op = "clear" => rowCount(last_op.m) = 0

\* C21: for a model whose data is a list, set(index, obj) returns True and
\* replaces the element at index when 0 <= index < rowCount(); it returns
\* True and appends obj when index == rowCount(); for every other index it
\* returns False, leaves the list (its length and all its elements) as it
\* was and emits no signal.
C21_SetContract ==
    [][(last_op'.op = "set" /\ is_list(data_ref[last_op'.m])) =>
          LET i == last_op'.index
              obj == last_op'.obj
              old == heap[data_ref[last_op'.m]]
              new == heap'[data_ref'[last_op'.m]]
          IN /\ (0 <= i /\ i < Len(old)) =>
                    /\ ret' = Returned("True")
                    /\ new = [old EXCEPT ![i + 1] = obj]
             /\ i = Len(old) =>
                    /\ ret' = Returned("True")
                    /\ new = Append(old, obj)
             /\ (i < 0 \/ i > Len(old)) =>
                    /\ ret' = Returned("False")
                    /\ heap' = heap
                    /\ signals' = <<>>]_vars

\* set(-1, obj) on a model with elements returned False
C21_Witness ==
    /\ last_op.op = "set"
    /\ last_op.index = -1
    /\ is_list(data_ref[last_op.m])
    /\ rowCount(last_op.m) > 0
    /\ ret = Returned("False")

\* the end that belongs to a begin
MatchingEnd(b) ==
    IF b = "beginInsertRows" THEN "endInsertRows"
    ELSE IF b = "beginRemoveRows" THEN "endRemoveRows"
    ELSE "endResetModel"

\* every begin in the sequence of emitted calls is followed by its end
BeginsEnded(sig) ==
    \A k \in 1..Len(sig) :
        sig[k] \in {"beginInsertRows", "beginRemoveRows", "beginResetModel"} =>
            \E j \in (k + 1)..Len(sig) : sig[j] = MatchingEnd(sig[k])

\* C26: after any sequence of insert, append, set, remove, clear and reset
\* calls, count (and rowCount()) is the number of elements toList() returns;
\* every call that changes that number emits countChanged; and every begin
\* of a row insertion, row removal or model reset is followed by its
\* matching end, also when the mutation of the list in between raises.
C26_CountAndSignals ==
    [][\A m \in Models :
          /\ is_list(data_ref'[m]) =>
                /\ Len(toList(heap', data_ref'[m]).heap[ReturnedList]) = Len(heap'[data_ref'[m]])
                /\ (last_op'.op = "toList" /\ last_op'.m = m) =>
                        Len(heap'[ret_ref'.ref]) = Len(heap'[data_ref'[m]])
          /\ Len(heap'[data_ref'[m]]) # count(m) =>
                \E k \in 1..Len(signals') : signals'[k] = "countChanged"
          /\ BeginsEnded(signals')]_vars

\* the data of the model is a tuple, insert raised after beginInsertRows,
\* and endInsertRows was called
C26_Witness ==
    /\ last_op.op = "insert"
    /\ ret.raised = "AttributeError"
    /\ signals # <<>>
    /\ signals[1] = "beginInsertRows"
    /\ \E k \in 2..Len(signals) : signals[k] = "endInsertRows"

----------------------------------------------------------------------------
\* DictListModel (gui/item_models.py)
\*
\* One DictListModel.  A dict is a function from its keys (role names) to
\* values; a mapping handed to resetWithDict is the sequence of its
\* (key, value) items in iteration order.

\* sequences of role names a caller uses
RoleSeqs == {<<"key", "value">>, <<"value", "key">>, <<"key">>}
RoleNameSet == {"key", "value"}

\* mappings: at most two of the items 10: 1 and 20: 2, in either order
MapItems == {<<10, 1>>, <<20, 2>>}
Mappings ==
    {<<>>} \cup {<<i>> : i \in MapItems}
      \cup {m \in [1..2 -> MapItems] : m[1] # m[2]}

\* dicts a caller appends, inserts or sets
AppendedDicts == {[key |-> 30, value |-> 3]}
\* lists of dicts a caller hands to reset
ResetLists == {<<>>} \cup {<<d>> : d \in AppendedDicts}
\* values a caller sets with setProperty and setData: the value of the
\* appended dict, which it leaves as it is, and a new one for the others
PropValues == {3}

NoReset == [called |-> FALSE, data |-> <<>>, roles |-> <<>>]

ReturnedNone == [kind |-> "None"]
ReturnedValue(v) == [kind |-> "value", val |-> v]
RaisedError(e) == [kind |-> "raised", exc |-> e]

\* dict.get(role, None)
dict_get(d, role) == IF role \in DOMAIN d THEN ReturnedValue(d[role]) ELSE ReturnedNone

SeqToSet(q) == {q[k] : k \in 1..Len(q)}

\* the dict literal {roles[0]: k, roles[1]: v}, line 493
item_dict(roles, item) == (roles[2] :> item[2]) @@ (roles[1] :> item[1])

\* ListModel.get, lines 216-218, on a DictListModel
get(data, index) ==
    IF ~(0 <= index /\ index <= Len(data)) THEN ReturnedNone
    ELSE IF index >= Len(data) THEN RaisedError("IndexError")
    ELSE ReturnedValue(data[index + 1])

\* DictListModel.getProperty, lines 438-440
getProperty(data, roles, index, role) ==
    IF ~(0 <= index /\ index <= Len(data) /\ role \in SeqToSet(roles)) THEN ReturnedNone
    ELSE IF index >= Len(data) THEN RaisedError("IndexError")
    ELSE dict_get(data[index + 1], role)

\* ListModel.roleNames, line 58, as long as the attribute is the method;
\* the k-th name belongs to the role id Qt.UserRole + k - 1
roleNames(attr, roles) ==
    IF attr = <<"method">> THEN ReturnedValue(roles)
    ELSE RaisedError("TypeError")

\* DictListModel.setProperty, lines 462-474: the dict is changed in place
\* unless it holds an equal value of the same type under the role
setProperty(data, roles, index, role, obj) ==
    IF ~(0 <= index /\ index < Len(data) /\ role \in SeqToSet(roles))
    THEN [data |-> data, ret |-> ReturnedValue(FALSE)]
    ELSE LET d == data[index + 1] IN
         IF dict_get(d, role) = ReturnedValue(obj)
         THEN [data |-> data, ret |-> ReturnedValue(TRUE)]
         ELSE [data |-> [data EXCEPT ![index + 1] = (role :> obj) @@ d],
               ret |-> ReturnedValue(TRUE)]

\* DictListModel.setData, lines 411-418: the k-th role has the id
\* Qt.UserRole + k - 1, and self.Roles(role) raises ValueError for an id
\* that is no role.  While the roles were never set, Roles is the class
\* without members of lines 334-338, and calling it raises TypeError
\* (CPython 3.11), which line 415 does not catch.
DictListModel_setData(data, roles, valid, row, value, role) ==
    IF ~valid THEN [data |-> data, ret |-> ReturnedValue(FALSE)]
    ELSE IF roles = <<>> THEN [data |-> data, ret |-> RaisedError("TypeError")]
    ELSE IF role - UserRole + 1 \notin 1..Len(roles)
    THEN [data |-> data, ret |-> ReturnedValue(FALSE)]
    ELSE setProperty(data, roles, row, roles[role - UserRole + 1], value)

\* what a method inherited from ListModel handed back
FromListModel(r) ==
    IF r.raised # "none" THEN RaisedError(r.raised)
    ELSE IF r.val = "None" THEN ReturnedNone
    ELSE ReturnedValue(r.val = "True")

\* a change of the list _data refers to: it is a change of the default list
\* while _data is that list
Store(new) ==
    /\ d_data' = new
    /\ d_default' = IF d_shared THEN new ELSE d_default
    /\ UNCHANGED d_shared

InitDict ==
    /\ d_data = <<>>
    /\ d_default = <<>>
    /\ d_shared = FALSE
    /\ d_roles = <<>>
    /\ d_roleNames = <<"method">>
    /\ d_reset = NoReset
    /\ d_op = [op |-> "init"]
    /\ d_ret = ReturnedNone
    /\ BatchOff
    /\ RoiOff
    /\ LocOff
    /\ PathOff
    /\ ListOff

\* model.roles = names, lines 355-359
SetRoles(names) ==
    /\ d_roles' = IF SeqToSet(names) = SeqToSet(d_roles) THEN d_roles ELSE names
    /\ d_reset' = NoReset
    /\ d_op' = [op |-> "roles"]
    /\ d_ret' = ReturnedNone
    /\ UNCHANGED <<xdvars, d_data, d_default, d_shared, d_roleNames>>

\* model.append(d), inherited from ListModel (lines 245, 231-234)
DictAppend(d) ==
    /\ Len(d_data) < MaxLen
    /\ Store(list_insert(d_data, Len(d_data), d))
    /\ d_reset' = NoReset
    /\ d_op' = [op |-> "append"]
    /\ d_ret' = ReturnedNone
    /\ UNCHANGED <<xdvars, d_roles, d_roleNames>>

\* model.insert(index, d), inherited from ListModel (lines 231-234)
DictInsert(index, d) ==
    /\ Len(d_data) < MaxLen
    /\ LET r == insert(<<d_data>>, 1, index, d) IN
         /\ Store(r.heap[1])
         /\ d_ret' = FromListModel(r.ret)
    /\ d_reset' = NoReset
    /\ d_op' = [op |-> "insert"]
    /\ UNCHANGED <<xdvars, d_roles, d_roleNames>>

\* model.set(index, d), inherited from ListModel (lines 263-270)
DictSet(index, d) ==
    /\ index = Len(d_data) => Len(d_data) < MaxLen
    /\ LET r == set(<<d_data>>, 1, index, d) IN
         /\ Store(r.heap[1])
         /\ d_ret' = FromListModel(r.ret)
    /\ d_reset' = NoReset
    /\ d_op' = [op |-> "set"]
    /\ UNCHANGED <<xdvars, d_roles, d_roleNames>>

\* model.remove(index, count), inherited from ListModel (lines 284-285)
DictRemove(index, cnt) ==
    /\ LET r == remove(<<d_data>>, 1, index, cnt) IN
         /\ Store(r.heap[1])
         /\ d_ret' = FromListModel(r.ret)
    /\ d_reset' = NoReset
    /\ d_op' = [op |-> "remove"]
    /\ UNCHANGED <<xdvars, d_roles, d_roleNames>>

\* model.reset(data) with a list of the caller, inherited from ListModel
\* (lines 303-304)
DictReset(data) ==
    /\ d_data' = data
    /\ d_shared' = FALSE
    /\ d_reset' = NoReset
    /\ d_op' = [op |-> "reset"]
    /\ d_ret' = ReturnedNone
    /\ UNCHANGED <<xdvars, d_default, d_roles, d_roleNames>>

\* model.clear(), inherited from ListModel (line 293): reset() with the
\* default value of data, the one list made when reset was defined
DictClear ==
    /\ d_data' = d_default
    /\ d_shared' = TRUE
    /\ d_reset' = NoReset
    /\ d_op' = [op |-> "clear"]
    /\ d_ret' = ReturnedNone
    /\ UNCHANGED <<xdvars, d_default, d_roles, d_roleNames>>

\* model.setProperty(index, role, obj)
SetProperty(index, role, obj) ==
    /\ LET r == setProperty(d_data, d_roles, index, role, obj) IN
         /\ Store(r.data)
         /\ d_ret' = r.ret
    /\ d_reset' = NoReset
    /\ d_op' = [op |-> "setProperty"]
    /\ UNCHANGED <<xdvars, d_roles, d_roleNames>>

\* model.setData(index, value, role)
DictSetData(valid, row, value, role) ==
    /\ LET r == DictListModel_setData(d_data, d_roles, valid, row, value, role) IN
         /\ Store(r.data)
         /\ d_ret' = r.ret
    /\ d_reset' = NoReset
    /\ d_op' = [op |-> "setData"]
    /\ UNCHANGED <<xdvars, d_roles, d_roleNames>>

\* DictListModel.resetWithDict(data, roles), lines 492-494: the list
\* comprehension raises IndexError for an item if roles has less than two
\* entries
ResetWithDict(data, roles) ==
    /\ IF data # <<>> /\ Len(roles) < 2
       THEN /\ d_ret' = RaisedError("IndexError")
            /\ UNCHANGED <<d_data, d_shared, d_roleNames, d_reset>>
       ELSE /\ d_data' = [k \in 1..Len(data) |-> item_dict(roles, data[k])]
            /\ d_shared' = FALSE
            /\ d_roleNames' = roles
            /\ d_reset' = [called |-> TRUE, data |-> data, roles |-> roles]
            /\ d_ret' = ReturnedNone
    /\ d_op' = [op |-> "resetWithDict"]
    /\ UNCHANGED <<xdvars, d_default, d_roles>>

\* model.roleNames()
RoleNames ==
    /\ d_ret' = roleNames(d_roleNames, d_roles)
    /\ d_op' = [op |-> "roleNames"]
    /\ UNCHANGED <<xdvars, d_data, d_default, d_shared, d_roles, d_roleNames, d_reset>>

\* model.get(index)
Get(index) ==
    /\ d_ret' = get(d_data, index)
    /\ d_op' = [op |-> "get", index |-> index]
    /\ UNCHANGED <<xdvars, d_data, d_default, d_shared, d_roles, d_roleNames, d_reset>>

\* model.getProperty(index, role)
GetProperty(index, role) ==
    /\ d_ret' = getProperty(d_data, d_roles, index, role)
    /\ d_op' = [op |-> "getProperty", index |-> index, role |-> role]
    /\ UNCHANGED <<xdvars, d_data, d_default, d_shared, d_roles, d_roleNames, d_reset>>

NextDict ==
    \/ \E names \in RoleSeqs : SetRoles(names)
    \/ \E d \in AppendedDicts : DictAppend(d)
    \/ \E index \in (-1)..MaxLen, d \in AppendedDicts : DictInsert(index, d)
    \/ \E index \in (-1)..(MaxLen + 1), d \in AppendedDicts : DictSet(index, d)
    \/ \E index \in (-1)..MaxLen, cnt \in {1, 2} : DictRemove(index, cnt)
    \/ \E data \in ResetLists : DictReset(data)
    \/ DictClear
    \/ \E index \in (-1)..MaxLen, role \in RoleNameSet, obj \in PropValues :
          SetProperty(index, role, obj)
    \/ \E valid \in BOOLEAN, row \in {0, MaxLen}, value \in PropValues,
          role \in UserRole..(UserRole + 2) : DictSetData(valid, row, value, role)
    \/ \E data \in Mappings, roles \in RoleSeqs : ResetWithDict(data, roles)
    \/ RoleNames
    \/ \E index \in (-1)..(MaxLen + 1) : Get(index)
    \/ \E index \in (-1)..(MaxLen + 1), role \in RoleNameSet : GetProperty(index, role)

SpecDict == InitDict /\ [][NextDict]_vars

----------------------------------------------------------------------------
\* Properties of DictListModel

\* C22: resetWithDict(data, roles) makes the model's data the list of the
\* dicts {roles[0]: k, roles[1]: v} of data's items, in data's order; and
\* on the model so reset roleNames() returns the mapping of the role ids to
\* the role names and getProperty(i, roles[0]) returns the i-th key.
C22_ResetWithDict ==
    /\ (d_op.op = "resetWithDict" /\ d_ret.kind # "raised") =>
          /\ Len(d_data) = Len(d_reset.data)
          /\ \A k \in 1..Len(d_data) :
                /\ d_data[k][d_reset.roles[1]] = d_reset.data[k][1]
                /\ d_data[k][d_reset.roles[2]] = d_reset.data[k][2]
    /\ (d_reset.called /\ d_op.op = "roleNames") =>
          /\ d_ret.kind = "value"
          /\ d_ret.val = d_roles
    /\ (/\ d_reset.called /\ d_op.op = "getProperty"
        /\ d_op.role = d_reset.roles[1]
        /\ 0 <= d_op.index /\ d_op.index < Len(d_reset.data)) =>
          /\ d_ret.kind = "value"
          /\ d_ret.val = d_reset.data[d_op.index + 1][1]

\* C25: get(index) and getProperty(index, role) return the stored element,
\* resp. the value stored under a role of the model, when
\* 0 <= index < rowCount(), and return None without raising for every other
\* index, index == rowCount() and negative indices included.
C25_GetOutOfRange ==
    /\ d_op.op = "get" =>
          IF 0 <= d_op.index /\ d_op.index < Len(d_data)
          THEN d_ret.kind = "value" /\ d_ret.val = d_data[d_op.index + 1]
          ELSE d_ret = ReturnedNone
    /\ d_op.op = "getProperty" =>
          IF 0 <= d_op.index /\ d_op.index < Len(d_data)
          THEN d_op.role \in SeqToSet(d_roles) =>
                  d_ret = dict_get(d_data[d_op.index + 1], d_op.role)
          ELSE d_ret = ReturnedNone

====
